---- MODULE Spec2Model ----
(***************************************************************************)
(* Request-to-process lifecycle of the mcp-gateway router:                 *)
(*   transport/http.go  handleMCP, streamState, sseWriter                  *)
(*   core/core.go       StreamTool, toolSemaphore, acquire/release         *)
(*   runner             execProcess.Close / Wait, stderr pump              *)
(*   runtime            KillProcess                                        *)
(*   config/config.go   Tool.Timeout, Tool.MaxConc                         *)
(* Every HTTP request is a handler goroutine (pc) plus the cancellation    *)
(* watchdog goroutine started by StreamTool (wd), the stderr pump of the   *)
(* process handle (pump) and the child process itself (child).             *)
(***************************************************************************)
EXTENDS Integers, Sequences, FiniteSets, TLC

\* ------------------------------------------------------------------ bounds
NumReqs == 2
MaxLines == 2
MaxInputs == 2

Reqs == 1..NumReqs

\* --------------------------------------------------------- config/config.go
DefaultToolTimeoutMs == 30000
DefaultMaxConcurrent == 1
MaxAllowedConcurrency == 32

\* Tool names are sequences of characters so that the validator can look
\* inside them.
NameEcho == <<"e", "c", "h", "o">>
NameSlow == <<"s", "l", "o", "w">>
NameNope == <<"n", "o", "p", "e">>
NameEvil == <<".", ".", "x">>

\* The loaded catalog (config.Config.Tools).  Validate() has accepted it:
\* timeout_ms >= 0 and 0 <= max_concurrent <= 32.
Catalog ==
    (NameEcho :> [Runtime |-> "native",    TimeoutMS |-> 0,   MaxConcurrent |-> 0]) @@
    (NameSlow :> [Runtime |-> "container", TimeoutMS |-> 200, MaxConcurrent |-> 2])

ToolNames == DOMAIN Catalog

\* Names a client may put in the path.
RequestNames == {NameEcho, NameSlow, NameNope, NameEvil}

\* A timeout taken from the catalog as it is, without the default.
Timeout_NoDefault(t) == t.TimeoutMS

\* Tool.Timeout: effective timeout in milliseconds.
Timeout(t) ==
    IF t.TimeoutMS <= 0 THEN DefaultToolTimeoutMs ELSE t.TimeoutMS

\* Tool.MaxConc: effective concurrency limit.
MaxConc(t) ==
    IF t.MaxConcurrent <= 0 THEN DefaultMaxConcurrent
    ELSE IF t.MaxConcurrent > MaxAllowedConcurrency THEN MaxAllowedConcurrency
    ELSE t.MaxConcurrent

\* --------------------------------------------------------- sandbox/sandbox.go
HasChar(name, cs) == \E i \in 1..Len(name) : name[i] \in cs

HasSub(name, sub) ==
    \E i \in 1..(Len(name) - Len(sub) + 1) :
        \A j \in 1..Len(sub) : name[i + j - 1] = sub[j]

AllowedChars ==
    {"a","b","c","d","e","f","g","h","i","j","k","l","m","n","o","p","q","r",
     "s","t","u","v","w","x","y","z",
     "A","B","C","D","E","F","G","H","I","J","K","L","M","N","O","P","Q","R",
     "S","T","U","V","W","X","Y","Z",
     "0","1","2","3","4","5","6","7","8","9","-","_"}

\* A validator without the final character allow-list.
ValidateToolName_NoCharset(name) ==
    IF Len(name) = 0 THEN "empty"
    ELSE IF HasChar(name, {" ", "\t", "\n", "\r"}) THEN "whitespace"
    ELSE IF HasChar(name, {"/", "\\"}) THEN "path separator"
    ELSE IF HasSub(name, <<".", ".">>) THEN "parent directory reference"
    ELSE "ok"

\* ValidateToolName: "ok" or the class of the first failing check.
ValidateToolName(name) ==
    IF Len(name) = 0 THEN "empty"
    ELSE IF HasChar(name, {" ", "\t", "\n", "\r"}) THEN "whitespace"
    ELSE IF HasChar(name, {"/", "\\"}) THEN "path separator"
    ELSE IF HasSub(name, <<".", ".">>) THEN "parent directory reference"
    ELSE IF \/ HasSub(name, <<"%", "2", "f">>) \/ HasSub(name, <<"%", "2", "F">>)
            \/ HasSub(name, <<"%", "5", "c">>) \/ HasSub(name, <<"%", "5", "C">>)
         THEN "encoded path separator"
    ELSE IF HasSub(name, <<"%", "2", "5">>) THEN "double-encoded"
    ELSE IF \E i \in 1..Len(name) : name[i] \notin AllowedChars THEN "invalid character"
    ELSE "ok"

\* Runner.MustGetTool
MustGetTool(name) == IF name \in ToolNames THEN "ok" ELSE "unknown tool"

VARIABLES
    pc,            \* handler goroutine: position in handleMCP / StreamTool
    rtool,         \* tool name of the request
    retErr,        \* StreamTool's return value ("nil" or the error)
    ctx,           \* tctx (derived from r.Context()): "live", "canceled", "deadline"
    deadlineMs,    \* timeout given to context.WithTimeout; 0 = no child context yet
    semCap,        \* s.sem: capacity of the tool's channel, 0 = not created yet
    semCount,      \* tokens currently in the tool's channel
    held,          \* request has acquired a token and not yet run its deferred release
    acquires,      \* how many times the request acquired a token
    releases,      \* how many times the request ran releaseSemaphore
    busySnap,      \* slot holders of the tool at the instant of a busy rejection, -1 = none
    child,         \* child process: "none", "run", "zombie" (exited, not reaped), "reaped"
    exitOk,        \* exit status zero
    produced,      \* lines the child has written to stdout so far
    outq,          \* stdout pipe: lines written and not yet scanned
    stdinClosed,   \* input side closed by writeJSONLineAndClose
    once,          \* execProcess.closeOnce: "fresh", "term" (closeFn running), "done"
    closeFnCalls,  \* how many times closeFn (KillProcess) was entered
    pump,          \* stderr pump goroutine: "none", "run", "done"
    wd,            \* watchdog goroutine: "none", "waiting", "close", "kill", "join", "exit"
    doneClosed,    \* close(done) has run
    started,       \* streamState.started
    errorSent,     \* streamState.errorSent
    events,        \* SSE frames the transport wrote: <<kind, accepted by the writer>>
    status,        \* HTTP status: 0 = none yet, 200 implicit at first write
    retryAfter,    \* Retry-After: 1 header set
    body,          \* text body written by http.Error
    peerGone,      \* the client has disconnected
    wbroken,       \* a write on the response has failed (bufio error is sticky)
    sigs,          \* signals KillProcess has sent to the child's process group
    firedRunning,  \* history: the request context fired while the child was running
    nw,            \* native backend's context watcher: "none", "waiting", "kill", "exit"
    gateway,       \* the gateway process itself: "up", "term" (got SIGTERM), "killed"
    busyProcs,     \* history: children of the tool alive when the busy error was returned
    respHdr,       \* header fields of the response once its header has been written
    waits,         \* number of calls of cmd.Wait on the child
    timeoutAt,     \* history: lines a running child had produced when the deadline fired (-1: none)
    readLines,     \* history: the lines sc.Scan() has returned, in order
    sunk,          \* history: positions in readLines of the lines given to WriteLine
    reqIn,         \* history: the request as it arrived (path, method, Content-Type, body)
    srv,           \* http.Server of HTTP.Run: "serving", "shutdown" (Shutdown running), "stopped"
    firedAt,       \* history: position of the handler when its context fired, "" = not fired
    errq,          \* stderr pipe: lines written by the child and not yet scanned by the pump
    semMade,       \* history: how many channels toolSemaphore has made for the tool
    runCtx,        \* ctx of Stdio.Run (signal.NotifyContext): "live", "canceled"
    stdioPc,       \* Stdio.Run: "read", "call", "relay", "ret", "eof"
    stdioIn,       \* history: the lines sc.Scan() of Stdio.Run has returned
    stdioReq,      \* req: the decoded StdioRequest being served
    stdioErr,      \* what StreamTool returns to Stdio.Run
    stdioCtx,      \* tctx of the StreamTool call made by Stdio.Run
    stdioRelayed,  \* output lines of the child the scan loop has read
    stdioSpawned,  \* history: input lines for which a process was started
    stdioOut,      \* history: every Write on t.out, one record per call
    outClosed,     \* the peer has closed the output stream: Write fails
    mu,            \* Stdio.mu: the goroutine that holds it, 0 = unlocked
    emitPc,        \* goroutine inside emitRaw: "idle", "lock", "head", "tail", "unlock"
    emitted,       \* number of emitRaw calls the goroutine has made
    wire           \* history: the pieces Write has put on t.out, in order

vars == <<pc, rtool, retErr, ctx, deadlineMs, semCap, semCount, held, acquires,
          releases, busySnap, child, exitOk, produced, outq, stdinClosed, once,
          closeFnCalls, pump, wd, doneClosed, started,
          errorSent, events, status, retryAfter, body, peerGone, wbroken, sigs,
          firedRunning, nw, gateway, busyProcs, respHdr, waits, timeoutAt,
          readLines, sunk, reqIn, srv, firedAt, errq, semMade, runCtx, stdioPc, stdioIn, stdioReq, stdioErr,
          stdioCtx, stdioRelayed, stdioSpawned, stdioOut, outClosed,
          mu, emitPc, emitted, wire>>

coreVars == <<retErr, deadlineMs, held, acquires, releases, busySnap>>
semVars == <<semCap, semCount>>
childVars == <<child, exitOk, produced, outq, stdinClosed>>
procVars == <<once, closeFnCalls, pump, sigs>>
wdVars == <<wd, doneClosed>>
httpVars == <<started, errorSent, events, status, retryAfter, body>>
peerVars == <<peerGone, wbroken>>
obsVars == <<respHdr, waits, timeoutAt, readLines, sunk, reqIn>>
stdioVars == <<stdioPc, stdioIn, stdioReq, stdioErr, stdioCtx, stdioRelayed,
               stdioSpawned, stdioOut, outClosed>>
emitVars == <<mu, emitPc, emitted, wire>>
gatewayVars == <<pc, rtool, retErr, ctx, deadlineMs, semCap, semCount, held,
                 acquires, releases, busySnap, child, exitOk, produced, outq,
                 stdinClosed, once, closeFnCalls, pump, wd, doneClosed, started,
                 errorSent, events, status, retryAfter, body, peerGone, wbroken,
                 sigs, firedRunning, nw, gateway, busyProcs, respHdr, waits,
                 timeoutAt, readLines, sunk, reqIn, srv, firedAt, errq,
                 semMade>>

\* The zero value of StdioRequest.
NoStdioReq == [ID |-> "", Tool |-> <<>>]

\* The request before it has arrived.
NoReq == [path |-> <<>>, method |-> "", ctype |-> <<>>, bodyJSON |-> FALSE]

LineKinds == {"msg", "empty", "long"}

\* The gateway process runs until it is killed.
Alive == gateway # "killed" /\ srv # "stopped"

\* State after core.New(cfg) and transport.NewHTTP: no request has been
\* handled yet; the requests of `arriving` are about to be served.
InitWith(arriving) ==
    /\ pc = [r \in Reqs |-> IF r \in arriving THEN "idle" ELSE "off"]
    /\ rtool = [r \in Reqs |-> <<>>]
    /\ retErr = [r \in Reqs |-> "nil"]
    /\ ctx = [r \in Reqs |-> "live"]
    /\ deadlineMs = [r \in Reqs |-> 0]
    /\ semCap = [t \in ToolNames |-> 0]
    /\ semCount = [t \in ToolNames |-> 0]
    /\ held = [r \in Reqs |-> FALSE]
    /\ acquires = [r \in Reqs |-> 0]
    /\ releases = [r \in Reqs |-> 0]
    /\ busySnap = [r \in Reqs |-> -1]
    /\ firedRunning = [r \in Reqs |-> FALSE]
    /\ nw = [r \in Reqs |-> "none"]
    /\ gateway = "up"
    /\ busyProcs = [r \in Reqs |-> -1]
    /\ child = [r \in Reqs |-> "none"]
    /\ exitOk = [r \in Reqs |-> TRUE]
    /\ produced = [r \in Reqs |-> 0]
    /\ outq = [r \in Reqs |-> <<>>]
    /\ stdinClosed = [r \in Reqs |-> FALSE]
    /\ once = [r \in Reqs |-> "fresh"]
    /\ closeFnCalls = [r \in Reqs |-> 0]
    /\ pump = [r \in Reqs |-> "none"]
    /\ wd = [r \in Reqs |-> "none"]
    /\ doneClosed = [r \in Reqs |-> FALSE]
    /\ started = [r \in Reqs |-> FALSE]
    /\ errorSent = [r \in Reqs |-> FALSE]
    /\ events = [r \in Reqs |-> <<>>]
    /\ status = [r \in Reqs |-> 0]
    /\ retryAfter = [r \in Reqs |-> FALSE]
    /\ body = [r \in Reqs |-> "none"]
    /\ peerGone = [r \in Reqs |-> FALSE]
    /\ wbroken = [r \in Reqs |-> FALSE]
    /\ sigs = [r \in Reqs |-> {}]
    /\ respHdr = [r \in Reqs |-> {}]
    /\ waits = [r \in Reqs |-> 0]
    /\ timeoutAt = [r \in Reqs |-> -1]
    /\ readLines = [r \in Reqs |-> <<>>]
    /\ sunk = [r \in Reqs |-> <<>>]
    /\ reqIn = [r \in Reqs |-> NoReq]
    /\ srv = "serving"
    /\ firedAt = [r \in Reqs |-> ""]
    /\ errq = [r \in Reqs |-> 0]
    /\ semMade = [t \in ToolNames |-> 0]
    /\ runCtx = "live"
    /\ stdioPc = "read"
    /\ stdioIn = <<>>
    /\ stdioReq = NoStdioReq
    /\ stdioErr = "nil"
    /\ stdioCtx = "live"
    /\ stdioRelayed = <<>>
    /\ stdioSpawned = {}
    /\ stdioOut = <<>>
    /\ outClosed = FALSE
    /\ mu = 0
    /\ emitPc = [g \in Reqs |-> "idle"]
    /\ emitted = [g \in Reqs |-> 0]
    /\ wire = <<>>

\* One request is served, with every event of its environment.
Init == InitWith({1})

\* All requests are served concurrently.
InitAdmission == InitWith(Reqs)

\* ------------------------------------------------------------ transport/http.go
\* A header map is a set of <<field, value>> pairs; Header().Set replaces
\* the value of the field.
hSet(h, k, v) == {p \in h : p[1] # k} \cup {<<k, v>>}

\* The header map of handleMCP when it calls StreamTool: the SSE fields are
\* set after the last validation; X-MCP-Timeout and X-MCP-Runtime only for
\* a tool of the catalog.
SSEHeaders(name) ==
    {<<"Content-Type", "text/event-stream">>, <<"Cache-Control", "no-cache">>,
     <<"Connection", "keep-alive">>, <<"X-Accel-Buffering", "no">>,
     <<"X-MCP-Tool", name>>}
    \cup (IF name \in ToolNames
          THEN {<<"X-MCP-Timeout", ToString(Timeout(Catalog[name]))>>,
                <<"X-MCP-Runtime", Catalog[name].Runtime>>}
          ELSE {})

\* http.Error: sets Content-Type and X-Content-Type-Options on the header
\* map it is given and writes the header; the other fields stay.
httpError(h) ==
    hSet(hSet(h, "Content-Type", "text/plain; charset=utf-8"),
         "X-Content-Type-Options", "nosniff")

\* Request paths are sequences of characters; "%2e" stands for an escaped
\* dot as it appears in the escaped path.
MCPPrefix == <<"/", "m", "c", "p", "/">>

\* Escaped forms of names the validator must refuse: a separator, plain,
\* escaped ("%2f") and escaped twice ("%25" is an escaped "%"), a space, a
\* dot, and no name at all.
RefusedSegments ==
    {<<"a", "/", "b">>, <<"a", "%2f", "b">>, <<"a", "%25", "2", "f", "b">>,
     <<"a", " ", "b">>, <<"a", ".", "b">>, <<>>}

\* Paths a client may ask for: one per name, a dot-segment path, a path
\* with escaped dots and the refused segments.
RequestPaths ==
    {MCPPrefix \o n : n \in RequestNames}
    \cup {MCPPrefix \o <<".", ".", "/">> \o NameEcho,
          MCPPrefix \o <<"%2e", "%2e", "x">>}
    \cup {MCPPrefix \o s : s \in RefusedSegments}

Methods == {"POST", "GET"}

\* Content-Type values: the media type followed by its parameters; <<>> is
\* a request without the header.
CTypes == {<<>>, <<"application/json">>, <<"application/json", "charset=utf-8">>,
           <<"text/plain">>}

\* r.URL.Path: the escaped path decoded.
URLPath(raw) ==
    [i \in 1..Len(raw) |->
        IF raw[i] = "%2e" THEN "."
        ELSE IF raw[i] = "%2f" THEN "/"
        ELSE IF raw[i] = "%25" THEN "%"
        ELSE raw[i]]

HasPrefix(s, pre) == Len(pre) <= Len(s) /\ SubSeq(s, 1, Len(pre)) = pre

HasSuffix(s, suf) ==
    Len(suf) <= Len(s) /\ SubSeq(s, Len(s) - Len(suf) + 1, Len(s)) = suf

\* strings.TrimPrefix
TrimPrefix(s, pre) == IF HasPrefix(s, pre) THEN SubSeq(s, Len(pre) + 1, Len(s)) ELSE s

\* strings.Trim(s, "/")
RECURSIVE Trim(_)
Trim(s) ==
    IF Len(s) = 0 THEN s
    ELSE IF s[1] = "/" THEN Trim(Tail(s))
    ELSE IF s[Len(s)] = "/" THEN Trim(SubSeq(s, 1, Len(s) - 1))
    ELSE s

\* toolName of handleMCP
ToolNameOf(raw) == Trim(TrimPrefix(URLPath(raw), MCPPrefix))

\* mime.ParseMediaType as handleMCP uses it: the media type without its
\* parameters.
ParseMediaType(ct) == ct[1]

\* WrapHardening: inside the /mcp namespace a path with a dot-segment, plain
\* or escaped, is answered 400 before the ServeMux sees it.
WrapHardening(raw) ==
    LET p == URLPath(raw) IN
    IF ~HasPrefix(p, <<"/", "m", "c", "p">>) THEN "next"
    ELSE IF \/ HasSub(p, <<"/", ".", ".", "/">>) \/ HasSuffix(p, <<"/", ".", ".">>)
            \/ HasSub(p, <<"/", ".", "/">>) \/ HasSuffix(p, <<"/", ".">>)
         THEN "invalid path"
    ELSE IF \/ HasSub(raw, <<"%2e", "%2e">>) \/ HasSub(raw, <<"%2e", "/">>)
            \/ HasSub(raw, <<"/", "%2e">>)
         THEN "invalid path"
    ELSE "next"

\* A handler that validates the tool name before the method.
handleMCP_Checks_NameFirst(in) ==
    IF ValidateToolName(ToolNameOf(in.path)) # "ok"
    THEN <<400, "invalid tool name">>
    ELSE IF in.method # "POST" THEN <<405, "method not allowed">>
    ELSE IF in.ctype = <<>> THEN <<415, "unsupported media type">>
    ELSE IF ParseMediaType(in.ctype) # "application/json"
    THEN <<415, "unsupported media type">>
    ELSE IF ~in.bodyJSON THEN <<400, "body must be valid JSON">>
    ELSE <<0, "">>

\* The validations of handleMCP, in the order of the code: the status and
\* text of the first http.Error, or <<0, "">> when the request passes.
handleMCP_Checks(in) ==
    IF in.method # "POST" THEN <<405, "method not allowed">>
    ELSE IF in.ctype = <<>> THEN <<415, "unsupported media type">>
    ELSE IF ParseMediaType(in.ctype) # "application/json"
    THEN <<415, "unsupported media type">>
    ELSE IF ValidateToolName(ToolNameOf(in.path)) # "ok"
    THEN <<400, "invalid tool name">>
    ELSE IF ~in.bodyJSON THEN <<400, "body must be valid JSON">>
    ELSE <<0, "">>

\* The server's handler chain: WrapHardening, then the mux and handleMCP.
ServeHTTP(in) ==
    IF WrapHardening(in.path) # "next" THEN <<400, WrapHardening(in.path)>>
    ELSE handleMCP_Checks(in)

\* A request arrives and goes through WrapHardening and handleMCP up to
\* the call of StreamTool.
handleMCP_Admit(r) ==
    /\ Alive
    /\ srv = "serving"
    /\ pc[r] = "idle"
    /\ \E path \in RequestPaths, method \in Methods, ctype \in CTypes,
          bodyJSON \in BOOLEAN :
        LET in == [path |-> path, method |-> method, ctype |-> ctype,
                   bodyJSON |-> bodyJSON]
            res == ServeHTTP(in)
        IN  /\ reqIn' = [reqIn EXCEPT ![r] = in]
            /\ IF res[1] # 0
               THEN /\ status' = [status EXCEPT ![r] = res[1]]
                    /\ body' = [body EXCEPT ![r] = res[2]]
                    /\ respHdr' = [respHdr EXCEPT ![r] = httpError({})]
                    /\ pc' = [pc EXCEPT ![r] = "done"]
                    /\ UNCHANGED rtool
               ELSE /\ rtool' = [rtool EXCEPT ![r] = ToolNameOf(path)]
                    /\ pc' = [pc EXCEPT ![r] = "sem"]
                    /\ UNCHANGED <<status, body, respHdr>>
    /\ UNCHANGED <<coreVars, ctx, semVars, childVars, procVars, wdVars, started,
                   errorSent, events, retryAfter, peerVars>>
    /\ UNCHANGED <<firedRunning, nw, gateway, busyProcs>>
    /\ UNCHANGED <<waits, timeoutAt, readLines, sunk>>
    /\ UNCHANGED <<stdioVars, emitVars, srv, firedAt, errq, semMade, runCtx>>


\* ------------------------------------------------------------ core/core.go
\* Slot holders of a tool: requests between a successful acquire and their
\* deferred release.
Holders(t) == {q \in Reqs : held[q] /\ rtool[q] = t}

\* The requests whose child of tool t has been started and not yet reaped.
Procs(t) == {q \in Reqs : rtool[q] = t /\ child[q] \in {"run", "zombie"}}

\* A channel that always has room, and a send without the default clause.
acquireSemaphore_Unbounded(count, cap) == "ok"

acquireSemaphore_Blocking(count, cap) == IF count < cap THEN "ok" ELSE "wait"

\* A channel that reports busy while one place is still free.
acquireSemaphore_OffByOne(count, cap) == IF count + 1 < cap THEN "ok" ELSE "busy"

\* acquireSemaphore: a select with a default clause; the send succeeds when
\* the channel has room ("ok"), otherwise ErrToolBusy is returned ("busy").
\* A send without the default clause would have to wait ("wait").
acquireSemaphore(count, cap) == IF count < cap THEN "ok" ELSE "busy"

\* A release that takes no token out of the channel.
releaseSemaphore_Leak(count) == count

\* releaseSemaphore: non-blocking receive from the channel.
releaseSemaphore(count) == IF count > 0 THEN count - 1 ELSE count

\* A lookup in s.sem that never finds the channel.
semFound_Never(cap) == FALSE

\* "if ch, ok := s.sem[toolName]; ok": a channel has been made for the tool.
semFound(cap) == cap # 0

\* StreamTool: ValidateToolName, MustGetTool, then toolSemaphore (lazy
\* creation of the channel under semMu).  A failure returns before any defer
\* other than the final log is registered.
ST_toolSemaphore(r) ==
    /\ Alive
    /\ pc[r] = "sem"
    /\ IF ValidateToolName(rtool[r]) # "ok"
       THEN /\ retErr' = [retErr EXCEPT ![r] = "invalid tool name"]
            /\ pc' = [pc EXCEPT ![r] = "respond"]
            /\ UNCHANGED <<semCap, semMade>>
       ELSE IF MustGetTool(rtool[r]) # "ok"
       THEN /\ retErr' = [retErr EXCEPT ![r] = "unknown tool"]
            /\ pc' = [pc EXCEPT ![r] = "respond"]
            /\ UNCHANGED <<semCap, semMade>>
       ELSE /\ semCap' = IF semFound(semCap[rtool[r]]) THEN semCap
                         ELSE [semCap EXCEPT ![rtool[r]] = MaxConc(Catalog[rtool[r]])]
            /\ semMade' = IF semFound(semCap[rtool[r]]) THEN semMade
                          ELSE [semMade EXCEPT ![rtool[r]] = @ + 1]
            /\ pc' = [pc EXCEPT ![r] = "acquire"]
            /\ UNCHANGED retErr
    /\ UNCHANGED <<rtool, ctx, deadlineMs, semCount, held, acquires, releases,
                   busySnap, childVars, procVars, wdVars, httpVars, peerVars>>
    /\ UNCHANGED <<firedRunning, nw, gateway, busyProcs>>
    /\ UNCHANGED obsVars
    /\ UNCHANGED <<stdioVars, emitVars, srv, firedAt, errq, runCtx>>

\* acquireSemaphore and "defer releaseSemaphore(sem)"; ErrToolBusy is
\* returned at once when the channel is full.
ST_acquire(r) ==
    /\ Alive
    /\ pc[r] = "acquire"
    /\ acquireSemaphore(semCount[rtool[r]], semCap[rtool[r]]) # "wait"
    /\ LET t == rtool[r] IN
       IF acquireSemaphore(semCount[t], semCap[t]) = "ok"
       THEN /\ semCount' = [semCount EXCEPT ![t] = @ + 1]
            /\ held' = [held EXCEPT ![r] = TRUE]
            /\ acquires' = [acquires EXCEPT ![r] = @ + 1]
            /\ pc' = [pc EXCEPT ![r] = "start"]
            /\ UNCHANGED <<retErr, busySnap, busyProcs>>
       ELSE /\ retErr' = [retErr EXCEPT ![r] = "busy"]
            /\ busySnap' = [busySnap EXCEPT ![r] = Cardinality(Holders(t))]
            /\ busyProcs' = [busyProcs EXCEPT ![r] = Cardinality(Procs(t))]
            /\ pc' = [pc EXCEPT ![r] = "respond"]
            /\ UNCHANGED <<semCount, held, acquires>>
    /\ UNCHANGED <<rtool, ctx, deadlineMs, semCap, releases, childVars, procVars,
                   wdVars, httpVars, peerVars>>
    /\ UNCHANGED <<firedRunning, nw, gateway>>
    /\ UNCHANGED obsVars
    /\ UNCHANGED <<stdioVars, emitVars, srv, firedAt, errq, semMade, runCtx>>

\* context.WithTimeout(ctx, tool.Timeout()), "defer cancel()", Runner.Start.
\* On success the stderr pump and the watchdog goroutine are started and
\* "defer close(done)" and "defer p.Close()" are registered.
ST_Start(r) ==
    /\ Alive
    /\ pc[r] = "start"
    /\ deadlineMs' = [deadlineMs EXCEPT ![r] = Timeout(Catalog[rtool[r]])]
    /\ \E spawned \in BOOLEAN :
        IF spawned
        THEN /\ child' = [child EXCEPT ![r] = "run"]
             /\ pump' = [pump EXCEPT ![r] = "run"]
             /\ wd' = [wd EXCEPT ![r] = "waiting"]
             /\ nw' = [nw EXCEPT ![r] =
                          IF Catalog[rtool[r]].Runtime = "native"
                          THEN "waiting" ELSE "none"]
             /\ pc' = [pc EXCEPT ![r] = "input"]
             /\ UNCHANGED retErr
        ELSE /\ retErr' = [retErr EXCEPT ![r] = "spawn failed"]
             /\ pc' = [pc EXCEPT ![r] = "unwind"]
             /\ UNCHANGED <<child, pump, wd, nw>>
    /\ UNCHANGED <<rtool, ctx, semVars, held, acquires, releases, busySnap,
                   exitOk, produced, outq, stdinClosed, once, closeFnCalls, sigs,
                   doneClosed, httpVars, peerVars>>
    /\ UNCHANGED <<firedRunning, gateway, busyProcs>>
    /\ UNCHANGED obsVars
    /\ UNCHANGED <<stdioVars, emitVars, srv, firedAt, errq, semMade, runCtx>>

\* json.Valid(inputJSON) and writeJSONLineAndClose(p.Stdin(), inputJSON).
\* The transport has already checked the body, so the input is valid JSON;
\* the write fails when the child has closed its end of the pipe.  The input
\* side is closed on both outcomes.
ST_WriteInput(r) ==
    /\ Alive
    /\ pc[r] = "input"
    /\ stdinClosed' = [stdinClosed EXCEPT ![r] = TRUE]
    /\ \E ok \in BOOLEAN :
        IF ok
        THEN /\ pc' = [pc EXCEPT ![r] = "scan"]
             /\ UNCHANGED retErr
        ELSE /\ retErr' = [retErr EXCEPT ![r] = "write stdin"]
             /\ pc' = [pc EXCEPT ![r] = "close"]
    /\ UNCHANGED <<rtool, ctx, deadlineMs, semVars, held, acquires, releases,
                   busySnap, child, exitOk, produced, outq, procVars, wdVars,
                   httpVars, peerVars>>
    /\ UNCHANGED <<firedRunning, nw, gateway, busyProcs>>
    /\ UNCHANGED obsVars
    /\ UNCHANGED <<stdioVars, emitVars, srv, firedAt, errq, semMade, runCtx>>

\* Outcomes of a write on the response: it succeeds while the peer is there,
\* it may fail once the peer is gone, and it fails after a failed write.
WriteOutcomes(r) ==
    IF wbroken[r] THEN {FALSE}
    ELSE IF peerGone[r] THEN {TRUE, FALSE}
    ELSE {TRUE}

\* A relay that skips no line.
SkipLine_Never(line) == FALSE

\* "if len(line) == 0 { continue }": an empty line is not given to the sink.
SkipLine(line) == line = "empty"

\* One iteration of "for sc.Scan()": a line is taken from the pipe; the
\* context is observed first; an empty line is skipped; otherwise the line
\* goes to sseWriter.WriteLine, which marks the stream started, then writes
\* the frame.  A line over the cap ends the loop with the scanner's error.
ST_ScanLine(r) ==
    /\ Alive
    /\ pc[r] = "scan"
    /\ outq[r] # <<>>
    /\ LET line == Head(outq[r]) IN
       /\ outq' = [outq EXCEPT ![r] = Tail(@)]
       /\ readLines' = [readLines EXCEPT ![r] =
                           IF line = "long" THEN @ ELSE Append(@, line)]
       /\ IF line = "long"
          THEN /\ retErr' = [retErr EXCEPT ![r] = "read stdout"]
               /\ pc' = [pc EXCEPT ![r] = "close"]
               /\ UNCHANGED <<started, events, status, wbroken, respHdr, sunk>>
          ELSE IF ctx[r] # "live"
          THEN /\ retErr' = [retErr EXCEPT ![r] =
                                IF ctx[r] = "deadline" THEN "context deadline exceeded"
                                ELSE "context canceled"]
               /\ pc' = [pc EXCEPT ![r] = "close"]
               /\ UNCHANGED <<started, events, status, wbroken, respHdr, sunk>>
          ELSE IF SkipLine(line)
          THEN UNCHANGED <<retErr, pc, started, events, status, wbroken, respHdr,
                           sunk>>
          ELSE \E ok \in WriteOutcomes(r) :
               /\ sunk' = [sunk EXCEPT ![r] = Append(@, Len(readLines[r]) + 1)]
               /\ started' = [started EXCEPT ![r] = TRUE]
               /\ events' = [events EXCEPT ![r] = Append(@, <<"message", ok>>)]
               /\ status' = [status EXCEPT ![r] = IF @ = 0 THEN 200 ELSE @]
               /\ respHdr' = [respHdr EXCEPT ![r] =
                                 IF status[r] = 0 THEN SSEHeaders(rtool[r]) ELSE @]
               /\ wbroken' = [wbroken EXCEPT ![r] = ~ok]
               /\ IF ok
                  THEN UNCHANGED <<retErr, pc>>
                  ELSE /\ retErr' = [retErr EXCEPT ![r] = "write failed"]
                       /\ pc' = [pc EXCEPT ![r] = "close"]
    /\ UNCHANGED <<rtool, ctx, deadlineMs, semVars, held, acquires, releases,
                   busySnap, child, exitOk, produced, stdinClosed, procVars,
                   wdVars, errorSent, retryAfter, body, peerGone>>
    /\ UNCHANGED <<firedRunning, nw, gateway, busyProcs>>
    /\ UNCHANGED <<waits, timeoutAt, reqIn>>
    /\ UNCHANGED <<stdioVars, emitVars, srv, firedAt, errq, semMade, runCtx>>

\* sc.Scan() returns false at EOF (the child is gone and the pipe is empty)
\* with no scanner error: StreamTool goes on to p.Wait().
ST_ScanEOF(r) ==
    /\ Alive
    /\ pc[r] = "scan"
    /\ outq[r] = <<>>
    /\ child[r] \in {"zombie", "reaped"}
    /\ pc' = [pc EXCEPT ![r] = "wait"]
    /\ UNCHANGED <<rtool, coreVars, ctx, semVars, childVars, procVars, wdVars,
                   httpVars, peerVars>>
    /\ UNCHANGED <<firedRunning, nw, gateway, busyProcs>>
    /\ UNCHANGED obsVars
    /\ UNCHANGED <<stdioVars, emitVars, srv, firedAt, errq, semMade, runCtx>>

\* A wait() whose result is dropped.
waitFn_Dropped(state, ok) == "nil"

\* waitFn, cmd.Wait(): nil for a child that exited with status zero and is
\* reaped by this call; an *exec.ExitError for another status or a signal;
\* an error as well when the child has been waited for already.
waitFn(state, ok) == IF state = "zombie" /\ ok THEN "nil" ELSE "exit status"

\* p.Wait(): cmd.Wait() returns when the child has exited and reaps it; a
\* non-zero exit is an error, and so is a child that something else has
\* reaped already.
ST_Wait(r) ==
    /\ Alive
    /\ pc[r] = "wait"
    /\ child[r] \in {"zombie", "reaped"}
    /\ child' = [child EXCEPT ![r] = "reaped"]
    /\ waits' = [waits EXCEPT ![r] = @ + 1]
    /\ retErr' = [retErr EXCEPT ![r] = waitFn(child[r], exitOk[r])]
    /\ pc' = [pc EXCEPT ![r] = "close"]
    /\ UNCHANGED <<rtool, ctx, deadlineMs, semVars, held, acquires, releases,
                   busySnap, exitOk, produced, outq, stdinClosed, procVars, wdVars,
                   httpVars, peerVars>>
    /\ UNCHANGED <<firedRunning, nw, gateway, busyProcs>>
    /\ UNCHANGED <<respHdr, timeoutAt, readLines, sunk, reqIn>>
    /\ UNCHANGED <<stdioVars, emitVars, srv, firedAt, errq, semMade, runCtx>>


\* ------------------------------------------------- runner: execProcess.Close
\* p.Close(), first part: closeOnce.Do(closeFn).  The first caller enters
\* closeFn (runtime.KillProcess), which starts by signalling SIGTERM; a
\* caller arriving while closeFn runs blocks inside Do; a caller arriving
\* after it skips it.  Result: the caller's next position.
\* A Once that lets only its first caller through.
CloseOnceEnabled_FirstOnly(r) == once[r] = "fresh"

CloseOnceEnabled(r) == once[r] # "term"

\* A Close that returns to its caller while closeFn is still running.
CloseOnceNext_Async(r) == "unwind"

CloseOnceNext(r) == IF once[r] = "fresh" THEN "kill" ELSE "join"

\* runtime.KillProcess, first half: syscall.Getpgid(pid) and, when the child
\* has not been reaped, syscall.Kill(-pgid, SIGTERM).  A native child leads
\* its own group (Setpgid); a container child is started without Setpgid, so
\* its group is the gateway's: the signal also reaches the gateway and the
\* container children of the other requests.
InGroupOf(r, q) ==
    \/ q = r
    \/ /\ Catalog[rtool[r]].Runtime = "container"
       /\ rtool[q] \in ToolNames
       /\ Catalog[rtool[q]].Runtime = "container"
       /\ child[q] \in {"run", "zombie"}

\* A kill primitive that signals the group without asking whether the
\* child still exists.
KillProcess_Term_Blind(r) ==
    /\ sigs' = [q \in Reqs |->
                    IF InGroupOf(r, q) THEN sigs[q] \cup {"TERM"} ELSE sigs[q]]
    /\ gateway' = IF Catalog[rtool[r]].Runtime = "container"
                  THEN "term" ELSE gateway

KillProcess_Term(r) ==
    IF child[r] # "reaped"
       THEN /\ sigs' = [q \in Reqs |->
                           IF InGroupOf(r, q) THEN sigs[q] \cup {"TERM"} ELSE sigs[q]]
            /\ gateway' = IF Catalog[rtool[r]].Runtime = "container"
                          THEN "term" ELSE gateway
       ELSE UNCHANGED <<sigs, gateway>>

\* A kill primitive that waits on the children it has killed.
KillProcess_Kill_Waits(r) ==
    IF child[r] # "reaped"
       THEN /\ sigs' = [q \in Reqs |->
                           IF InGroupOf(r, q) THEN sigs[q] \cup {"KILL"} ELSE sigs[q]]
            /\ gateway' = IF Catalog[rtool[r]].Runtime = "container"
                          THEN "killed" ELSE gateway
            /\ child' = [q \in Reqs |->
                            IF InGroupOf(r, q) THEN "reaped" ELSE child[q]]
            /\ exitOk' = [q \in Reqs |->
                             IF InGroupOf(r, q) /\ child[q] = "run"
                             THEN FALSE ELSE exitOk[q]]
       ELSE UNCHANGED <<sigs, gateway, child, exitOk>>

\* runtime.KillProcess, second half: waitForExit polls Signal(0), which keeps
\* succeeding until the child has been reaped; then syscall.Kill(-pgid,
\* SIGKILL) hits the same group.
KillProcess_Kill(r) ==
    IF child[r] # "reaped"
       THEN /\ sigs' = [q \in Reqs |->
                           IF InGroupOf(r, q) THEN sigs[q] \cup {"KILL"} ELSE sigs[q]]
            /\ gateway' = IF Catalog[rtool[r]].Runtime = "container"
                          THEN "killed" ELSE gateway
            /\ child' = [q \in Reqs |->
                            IF InGroupOf(r, q) /\ child[q] = "run"
                            THEN "zombie" ELSE child[q]]
            /\ exitOk' = [q \in Reqs |->
                             IF InGroupOf(r, q) /\ child[q] = "run"
                             THEN FALSE ELSE exitOk[q]]
       ELSE UNCHANGED <<sigs, gateway, child, exitOk>>

\* Close without sync.Once: every caller enters closeFn.
CloseOnce_NoOnce(r, caller) ==
    /\ once' = [once EXCEPT ![r] = "term"]
    /\ closeFnCalls' = [closeFnCalls EXCEPT ![r] = @ + 1]
    /\ KillProcess_Term(r)

CloseOnce(r, caller) ==
    IF once[r] = "fresh"
       THEN /\ once' = [once EXCEPT ![r] = "term"]
            /\ closeFnCalls' = [closeFnCalls EXCEPT ![r] = @ + 1]
            /\ KillProcess_Term(r)
       ELSE UNCHANGED <<once, closeFnCalls, sigs, gateway>>

\* closeFn returns after the second half of KillProcess and Do completes.
CloseOnceDone(r) ==
    /\ once' = [once EXCEPT ![r] = "done"]
    /\ KillProcess_Kill(r)

\* A Close that does not wait for the WaitGroup.
JoinEnabled_NoWait(r) == TRUE

\* p.Close(), second part: p.wg.Wait() returns when the stderr pump is done.
JoinEnabled(r) == pump[r] # "run"

\* Deferred "p.Close()" of StreamTool, run on every return after the spawn.
ST_Close(r) ==
    /\ Alive
    /\ pc[r] = "close"
    /\ CloseOnceEnabled(r)
    /\ CloseOnce(r, "main")
    /\ pc' = [pc EXCEPT ![r] = CloseOnceNext(r)]
    /\ UNCHANGED <<rtool, coreVars, ctx, semVars, childVars, pump, wdVars,
                   httpVars, peerVars>>
    /\ UNCHANGED <<firedRunning, nw, busyProcs>>
    /\ UNCHANGED obsVars
    /\ UNCHANGED <<stdioVars, emitVars, srv, firedAt, errq, semMade, runCtx>>

ST_Kill(r) ==
    /\ Alive
    /\ pc[r] = "kill"
    /\ CloseOnceDone(r)
    /\ pc' = [pc EXCEPT ![r] = "join"]
    /\ UNCHANGED <<rtool, coreVars, ctx, semVars, produced, outq, stdinClosed,
                   closeFnCalls, pump, wdVars, httpVars,
                   peerVars>>
    /\ UNCHANGED <<firedRunning, nw, busyProcs>>
    /\ UNCHANGED obsVars
    /\ UNCHANGED <<stdioVars, emitVars, srv, firedAt, errq, semMade, runCtx>>

ST_Join(r) ==
    /\ Alive
    /\ pc[r] = "join"
    /\ JoinEnabled(r)
    /\ pc' = [pc EXCEPT ![r] = "unwind"]
    /\ UNCHANGED <<rtool, coreVars, ctx, semVars, childVars, procVars, wdVars,
                   httpVars, peerVars>>
    /\ UNCHANGED <<firedRunning, nw, gateway, busyProcs>>
    /\ UNCHANGED obsVars
    /\ UNCHANGED <<stdioVars, emitVars, srv, firedAt, errq, semMade, runCtx>>

\* The remaining defers of StreamTool, in reverse order of registration:
\* close(done) (only when the spawn succeeded), cancel(), releaseSemaphore.
\* An unwind that leaves the done channel open.
closeDone_Missing(w) == FALSE

\* defer close(done), registered right after the watchdog is started: done is
\* closed on every return that follows the spawn.
closeDone(w) == w # "none"

ST_Unwind(r) ==
    /\ Alive
    /\ pc[r] = "unwind"
    /\ doneClosed' = [doneClosed EXCEPT ![r] = closeDone(wd[r])]
    /\ ctx' = [ctx EXCEPT ![r] = IF @ = "live" THEN "canceled" ELSE @]
    /\ semCount' = [semCount EXCEPT ![rtool[r]] = releaseSemaphore(@)]
    /\ held' = [held EXCEPT ![r] = FALSE]
    /\ releases' = [releases EXCEPT ![r] = @ + 1]
    /\ pc' = [pc EXCEPT ![r] = "respond"]
    /\ UNCHANGED <<rtool, retErr, deadlineMs, semCap, acquires, busySnap,
                   childVars, procVars, wd, httpVars, peerVars>>
    /\ UNCHANGED <<firedRunning, nw, gateway, busyProcs>>
    /\ UNCHANGED obsVars
    /\ UNCHANGED <<stdioVars, emitVars, srv, firedAt, errq, semMade, runCtx>>

\* ------------------------------------------------ core: watchdog goroutine
\* A watchdog that never sees the context end.
tctxDone_Never(c) == FALSE

\* <-tctx.Done() is ready once the child context is cancelled or expired.
tctxDone(c) == c # "live"

\* select { case <-tctx.Done(): p.Close(); case <-done: }
WD_Fire(r) ==
    /\ Alive
    /\ wd[r] = "waiting"
    /\ tctxDone(ctx[r])
    /\ wd' = [wd EXCEPT ![r] = "close"]
    /\ UNCHANGED <<pc, rtool, coreVars, ctx, semVars, childVars, procVars,
                   doneClosed, httpVars, peerVars>>
    /\ UNCHANGED <<firedRunning, nw, gateway, busyProcs>>
    /\ UNCHANGED obsVars
    /\ UNCHANGED <<stdioVars, emitVars, srv, firedAt, errq, semMade, runCtx>>

WD_Done(r) ==
    /\ Alive
    /\ wd[r] = "waiting"
    /\ doneClosed[r]
    /\ wd' = [wd EXCEPT ![r] = "exit"]
    /\ UNCHANGED <<pc, rtool, coreVars, ctx, semVars, childVars, procVars,
                   doneClosed, httpVars, peerVars>>
    /\ UNCHANGED <<firedRunning, nw, gateway, busyProcs>>
    /\ UNCHANGED obsVars
    /\ UNCHANGED <<stdioVars, emitVars, srv, firedAt, errq, semMade, runCtx>>

WD_Close(r) ==
    /\ Alive
    /\ wd[r] = "close"
    /\ CloseOnceEnabled(r)
    /\ CloseOnce(r, "wd")
    /\ wd' = [wd EXCEPT ![r] = CloseOnceNext(r)]
    /\ UNCHANGED <<pc, rtool, coreVars, ctx, semVars, childVars, pump,
                   doneClosed, httpVars, peerVars>>
    /\ UNCHANGED <<firedRunning, nw, busyProcs>>
    /\ UNCHANGED obsVars
    /\ UNCHANGED <<stdioVars, emitVars, srv, firedAt, errq, semMade, runCtx>>

WD_Kill(r) ==
    /\ Alive
    /\ wd[r] = "kill"
    /\ CloseOnceDone(r)
    /\ wd' = [wd EXCEPT ![r] = "join"]
    /\ UNCHANGED <<pc, rtool, coreVars, ctx, semVars, produced, outq,
                   stdinClosed, closeFnCalls, pump,
                   doneClosed, httpVars, peerVars>>
    /\ UNCHANGED <<firedRunning, nw, busyProcs>>
    /\ UNCHANGED obsVars
    /\ UNCHANGED <<stdioVars, emitVars, srv, firedAt, errq, semMade, runCtx>>

WD_Join(r) ==
    /\ Alive
    /\ wd[r] = "join"
    /\ JoinEnabled(r)
    /\ wd' = [wd EXCEPT ![r] = "exit"]
    /\ UNCHANGED <<pc, rtool, coreVars, ctx, semVars, childVars, procVars,
                   doneClosed, httpVars, peerVars>>
    /\ UNCHANGED <<firedRunning, nw, gateway, busyProcs>>
    /\ UNCHANGED obsVars
    /\ UNCHANGED <<stdioVars, emitVars, srv, firedAt, errq, semMade, runCtx>>

\* ------------------------------------------- runtime: backend's own watchers
\* NativeRuntime.Spawn's goroutine: <-ctx.Done(); stdin.Close();
\* KillProcess(cmd).  It calls the kill primitive directly, not through the
\* handle's closeOnce.
NW_Fire(r) ==
    /\ Alive
    /\ nw[r] = "waiting"
    /\ ctx[r] # "live"
    /\ stdinClosed' = [stdinClosed EXCEPT ![r] = TRUE]
    /\ KillProcess_Term(r)
    /\ nw' = [nw EXCEPT ![r] = "kill"]
    /\ UNCHANGED <<pc, rtool, coreVars, ctx, semVars, child, exitOk, produced,
                   outq, once, closeFnCalls, pump, wdVars, httpVars, peerVars,
                   firedRunning, busyProcs>>
    /\ UNCHANGED obsVars
    /\ UNCHANGED <<stdioVars, emitVars, srv, firedAt, errq, semMade, runCtx>>

NW_Kill(r) ==
    /\ Alive
    /\ nw[r] = "kill"
    /\ KillProcess_Kill(r)
    /\ nw' = [nw EXCEPT ![r] = "exit"]
    /\ UNCHANGED <<pc, rtool, coreVars, ctx, semVars, produced, outq,
                   stdinClosed, once, closeFnCalls, pump, wdVars, httpVars,
                   peerVars, firedRunning, busyProcs>>
    /\ UNCHANGED obsVars
    /\ UNCHANGED <<stdioVars, emitVars, srv, firedAt, errq, semMade, runCtx>>

\* DockerRuntime.Spawn uses exec.CommandContext: when the context is done
\* os/exec kills the docker client with Process.Kill (SIGKILL to the pid).
CC_Kill(r) ==
    /\ Alive
    /\ rtool[r] \in ToolNames
    /\ Catalog[rtool[r]].Runtime = "container"
    /\ ctx[r] # "live"
    /\ child[r] = "run"
    /\ child' = [child EXCEPT ![r] = "zombie"]
    /\ exitOk' = [exitOk EXCEPT ![r] = FALSE]
    /\ sigs' = [sigs EXCEPT ![r] = @ \cup {"CTXKILL"}]
    /\ UNCHANGED <<pc, rtool, coreVars, ctx, semVars, produced, outq,
                   stdinClosed, once, closeFnCalls, pump, wdVars, httpVars,
                   peerVars, firedRunning, nw, gateway, busyProcs>>
    /\ UNCHANGED obsVars
    /\ UNCHANGED <<stdioVars, emitVars, srv, firedAt, errq, semMade, runCtx>>

\* ------------------------------------------------- runner: stderr pump
\* The pump's scanner reaches EOF when the child is gone.
PumpExit(r) ==
    /\ Alive
    /\ pump[r] = "run"
    /\ child[r] \in {"zombie", "reaped"}
    /\ errq[r] = 0
    /\ pump' = [pump EXCEPT ![r] = "done"]
    /\ UNCHANGED <<pc, rtool, coreVars, ctx, semVars, childVars, once,
                   closeFnCalls, sigs, wdVars, httpVars, peerVars>>
    /\ UNCHANGED <<firedRunning, nw, gateway, busyProcs>>
    /\ UNCHANGED obsVars
    /\ UNCHANGED <<stdioVars, emitVars, srv, firedAt, errq, semMade, runCtx>>

\* ------------------------------------------------------ transport/http.go
\* A stream state that ignores whether streaming has started.
canHTTPError_Always(st) == TRUE

canHTTPError_Never(st) == FALSE

\* streamState.canHTTPError
canHTTPError(st) == ~st

\* A stream state that never lets the error event out.
trySendStreamError_Never(sent) == FALSE

\* streamState.trySendStreamError: whether send() is called.
trySendStreamError(sent) == ~sent

\* handleMCP after StreamTool has returned.
handleMCP_Finish(r) ==
    /\ Alive
    /\ pc[r] = "respond"
    /\ pc' = [pc EXCEPT ![r] = "done"]
    /\ IF retErr[r] = "nil"
       THEN /\ status' = [status EXCEPT ![r] = IF @ = 0 THEN 200 ELSE @]
            /\ respHdr' = [respHdr EXCEPT ![r] =
                              IF status[r] = 0 THEN SSEHeaders(rtool[r]) ELSE @]
            /\ UNCHANGED <<errorSent, events, retryAfter, body, wbroken>>
       ELSE IF canHTTPError(started[r])
       THEN /\ IF retErr[r] = "busy"
               THEN /\ retryAfter' = [retryAfter EXCEPT ![r] = TRUE]
                    /\ status' = [status EXCEPT ![r] = IF @ = 0 THEN 429 ELSE @]
                    /\ respHdr' = [respHdr EXCEPT ![r] =
                                      IF status[r] = 0
                                      THEN httpError(hSet(SSEHeaders(rtool[r]),
                                                          "Retry-After", "1"))
                                      ELSE @]
                    /\ body' = [body EXCEPT ![r] = "tool busy"]
               ELSE /\ status' = [status EXCEPT ![r] = IF @ = 0 THEN 500 ELSE @]
                    /\ respHdr' = [respHdr EXCEPT ![r] =
                                      IF status[r] = 0
                                      THEN httpError(SSEHeaders(rtool[r])) ELSE @]
                    /\ body' = [body EXCEPT ![r] = retErr[r]]
                    /\ UNCHANGED retryAfter
            /\ UNCHANGED <<errorSent, events, wbroken>>
       ELSE /\ IF trySendStreamError(errorSent[r])
               THEN \E ok \in WriteOutcomes(r) :
                    /\ errorSent' = [errorSent EXCEPT ![r] = TRUE]
                    /\ events' = [events EXCEPT ![r] = Append(@, <<"error", ok>>)]
                    /\ wbroken' = [wbroken EXCEPT ![r] = ~ok]
               ELSE UNCHANGED <<errorSent, events, wbroken>>
            /\ status' = [status EXCEPT ![r] = IF @ = 0 THEN 200 ELSE @]
            /\ UNCHANGED <<retryAfter, body, respHdr>>
    /\ UNCHANGED <<rtool, coreVars, ctx, semVars, childVars, procVars, wdVars,
                   started, peerGone>>
    /\ UNCHANGED <<firedRunning, nw, gateway, busyProcs>>
    /\ UNCHANGED <<waits, timeoutAt, readLines, sunk, reqIn>>
    /\ UNCHANGED <<stdioVars, emitVars, srv, firedAt, errq, semMade, runCtx>>

\* ------------------------------------------------------------ environment
\* The child writes one line to its stdout.
ChildEmit(r) ==
    /\ Alive
    /\ child[r] = "run"
    /\ produced[r] < MaxLines
    /\ \E kind \in LineKinds : outq' = [outq EXCEPT ![r] = Append(@, kind)]
    /\ produced' = [produced EXCEPT ![r] = @ + 1]
    /\ UNCHANGED <<pc, rtool, coreVars, ctx, semVars, child, exitOk, stdinClosed,
                   procVars, wdVars, httpVars, peerVars>>
    /\ UNCHANGED <<firedRunning, nw, gateway, busyProcs>>
    /\ UNCHANGED obsVars
    /\ UNCHANGED <<stdioVars, emitVars, srv, firedAt, errq, semMade, runCtx>>

\* The child exits by itself (end of input, SIGTERM handler, crash).
ChildExit(r) ==
    /\ Alive
    /\ child[r] = "run"
    /\ child' = [child EXCEPT ![r] = "zombie"]
    /\ \E ok \in BOOLEAN : exitOk' = [exitOk EXCEPT ![r] = ok]
    /\ UNCHANGED <<pc, rtool, coreVars, ctx, semVars, produced, outq, stdinClosed,
                   procVars, wdVars, httpVars, peerVars>>
    /\ UNCHANGED <<firedRunning, nw, gateway, busyProcs>>
    /\ UNCHANGED obsVars
    /\ UNCHANGED <<stdioVars, emitVars, srv, firedAt, errq, semMade, runCtx>>

\* The client closes the connection.  From now on a write on the response
\* may fail; the request context is cancelled by PeerCancel, once the
\* server's background read has noticed.
PeerDisconnect(r) ==
    /\ Alive
    /\ pc[r] \notin {"off", "idle", "done"}
    /\ ~peerGone[r]
    /\ peerGone' = [peerGone EXCEPT ![r] = TRUE]
    /\ UNCHANGED <<pc, rtool, coreVars, ctx, semVars, childVars, procVars, wdVars,
                   httpVars, wbroken>>
    /\ UNCHANGED <<firedRunning, nw, gateway, busyProcs>>
    /\ UNCHANGED obsVars
    /\ UNCHANGED <<stdioVars, emitVars, srv, firedAt, errq, semMade, runCtx>>

\* net/http cancels r.Context() when it sees that the connection is closed.
PeerCancel(r) ==
    /\ Alive
    /\ pc[r] \notin {"off", "idle", "done"}
    /\ peerGone[r]
    /\ ctx[r] = "live"
    /\ ctx' = [ctx EXCEPT ![r] = "canceled"]
    /\ UNCHANGED <<pc, rtool, coreVars, semVars, childVars, procVars, wdVars,
                   httpVars, peerVars>>
    /\ firedRunning' = [firedRunning EXCEPT ![r] = @ \/ child[r] = "run"]
    /\ UNCHANGED <<nw, gateway, busyProcs>>
    /\ UNCHANGED obsVars
    /\ firedAt' = [firedAt EXCEPT ![r] = pc[r]]
    /\ UNCHANGED <<stdioVars, emitVars, srv, errq, semMade, runCtx>>

\* The timer of context.WithTimeout fires.
TimeoutFires(r) ==
    /\ Alive
    /\ deadlineMs[r] > 0
    /\ ctx[r] = "live"
    /\ ctx' = [ctx EXCEPT ![r] = "deadline"]
    /\ timeoutAt' = [timeoutAt EXCEPT ![r] =
                           IF child[r] = "run" THEN produced[r] ELSE @]
    /\ UNCHANGED <<pc, rtool, coreVars, semVars, childVars, procVars, wdVars,
                   httpVars, peerVars>>
    /\ firedRunning' = [firedRunning EXCEPT ![r] = @ \/ child[r] = "run"]
    /\ UNCHANGED <<nw, gateway, busyProcs>>
    /\ UNCHANGED <<respHdr, waits, readLines, sunk, reqIn>>
    /\ firedAt' = [firedAt EXCEPT ![r] = pc[r]]
    /\ UNCHANGED <<stdioVars, emitVars, srv, errq, semMade, runCtx>>

Next ==
    \E r \in Reqs :
        \/ handleMCP_Admit(r)
        \/ ST_toolSemaphore(r)
        \/ ST_acquire(r)
        \/ ST_Start(r)
        \/ ST_WriteInput(r)
        \/ ST_ScanLine(r)
        \/ ST_ScanEOF(r)
        \/ ST_Wait(r)
        \/ ST_Close(r)
        \/ ST_Kill(r)
        \/ ST_Join(r)
        \/ ST_Unwind(r)
        \/ handleMCP_Finish(r)
        \/ WD_Fire(r)
        \/ WD_Done(r)
        \/ WD_Close(r)
        \/ WD_Kill(r)
        \/ WD_Join(r)
        \/ NW_Fire(r)
        \/ NW_Kill(r)
        \/ CC_Kill(r)
        \/ PumpExit(r)
        \/ ChildEmit(r)
        \/ ChildExit(r)
        \/ PeerDisconnect(r)
        \/ PeerCancel(r)
        \/ TimeoutFires(r)

Spec == Init /\ [][Next]_vars

\* Concurrent requests whose clients stay connected, whose timers do not
\* fire and whose children write nothing: what is left is the interleaving
\* of the requests at the admission counter and every way a request ends
\* without streaming.
NextAdmission ==
    \E r \in Reqs :
        \/ handleMCP_Admit(r)
        \/ ST_toolSemaphore(r)
        \/ ST_acquire(r)
        \/ ST_Start(r)
        \/ ST_WriteInput(r)
        \/ ST_ScanEOF(r)
        \/ ST_Wait(r)
        \/ ST_Close(r)
        \/ ST_Kill(r)
        \/ ST_Join(r)
        \/ ST_Unwind(r)
        \/ handleMCP_Finish(r)
        \/ WD_Fire(r)
        \/ WD_Done(r)
        \/ WD_Close(r)
        \/ WD_Join(r)
        \/ NW_Fire(r)
        \/ NW_Kill(r)
        \/ PumpExit(r)
        \/ ChildExit(r)

SpecAdmission == InitAdmission /\ [][NextAdmission]_vars


\* ---------------------------------------------------------------------
\* transport/stdio.go: the line transport.  Stdio.Run serves one input
\* line at a time on its own goroutine; StreamTool runs on that goroutine
\* and calls stdioWriter.WriteLine for every line it relays.
\* ---------------------------------------------------------------------

\* Bytes are grouped into lexical tokens: a line is a sequence of tokens and
\* the whitespace bytes that stand between them.
IsSpace(tok) == tok \in {" ", "\t"}

\* bytesTrimSpace: drops the whitespace at both ends and nothing else.
RECURSIVE bytesTrimSpace(_)
bytesTrimSpace(b) ==
    IF Len(b) = 0 THEN b
    ELSE IF IsSpace(b[1]) THEN bytesTrimSpace(Tail(b))
    ELSE IF IsSpace(b[Len(b)]) THEN bytesTrimSpace(SubSeq(b, 1, Len(b) - 1))
    ELSE b

\* Output lines a tool may print.
LineCompact == <<"{", "\"a\"", ":", "1", "}">>
LineSpaced == <<"{", "\"a\"", ":", " ", "1", "}">>
LineHTML == <<"\"<\"">>
LinePadded == <<" ", "{", "\"a\"", ":", "1", "}", " ">>
LineText == <<"o", "k">>
ChildLines == {LineCompact, LineSpaced, LinePadded, LineHTML, LineText, <<>>}

WithoutSpace(b) == SelectSeq(b, LAMBDA tok : ~IsSpace(tok))

\* json.Valid, on the documents the tools of the model can print.
JSONValid(b) == WithoutSpace(b) \in {LineCompact, LineHTML}

\* A json.RawMessage inside a marshalled value is written through
\* appendCompact with HTML escaping: the whitespace between tokens is
\* dropped and <, > and & inside strings become \u003c, \u003e and \u0026.
EscapeHTML(tok) == IF tok = "\"<\"" THEN "\"\\u003c\"" ELSE tok
MarshalRaw(b) ==
    [i \in 1..Len(WithoutSpace(b)) |-> EscapeHTML(WithoutSpace(b)[i])]

\* Input lines.  syntax: "blank" (whitespace only), "bad" (not JSON),
\* "scalar" (a JSON value that is not an object, e.g. 5), "null",
\* "object" (an object whose id and tool are strings or absent; an absent
\* field and an empty string decode alike) and "badfield" (an object whose
\* tool is not a string).
StdioIDs == {"", "7"}
StdioTools == {<<>>, NameEcho, NameNope, NameEvil}
InputLines ==
    {[syntax |-> s, id |-> "", tool |-> <<>>] :
        s \in {"blank", "bad", "scalar", "null"}}
    \cup {[syntax |-> "object", id |-> i, tool |-> t] :
            i \in StdioIDs, t \in StdioTools}
    \cup {[syntax |-> "badfield", id |-> i, tool |-> <<>>] : i \in StdioIDs}

\* json.Unmarshal(line, &req): a syntax error leaves req untouched; a value
\* of the wrong type is an error too, but the fields that fit are stored;
\* null is accepted and stores nothing.
Unmarshal_Lenient(line) ==
    [err |-> line.syntax = "bad",
     ID |-> IF line.syntax \in {"object", "badfield"} THEN line.id ELSE "",
     Tool |-> IF line.syntax = "object" THEN line.tool ELSE <<>>]
Unmarshal(line) ==
    [err |-> line.syntax \in {"bad", "scalar", "badfield"},
     ID |-> IF line.syntax \in {"object", "badfield"} THEN line.id ELSE "",
     Tool |-> IF line.syntax = "object" THEN line.tool ELSE <<>>]

\* One Write on t.out.  emitRaw marshals the whole envelope first; the id
\* is part of it only when it is not empty.
\* src is history: the output line of the child the event was made from.
Envelope(n, id, event, error, detail, data, src) ==
    [n |-> n, id |-> id, event |-> event, error |-> error,
     detail |-> detail, data |-> data, src |-> src, ok |-> ~outClosed]

emit_Anonymous(n, id, event, error, detail) ==
    stdioOut' = Append(stdioOut, Envelope(n, "", event, error, detail, <<>>, <<>>))
emit(n, id, event, error, detail) ==
    stdioOut' = Append(stdioOut, Envelope(n, id, event, error, detail, <<>>, <<>>))

\* Stdio.Run, one turn of the loop up to the call of StreamTool.
Stdio_Read ==
    /\ stdioPc = "read"
    /\ Len(stdioIn) < MaxInputs
    /\ \E line \in InputLines :
        LET n == Len(stdioIn) + 1
            d == Unmarshal(line)
        IN  /\ stdioIn' = Append(stdioIn, line)
            /\ IF line.syntax = "blank"
               THEN UNCHANGED <<stdioPc, stdioReq, stdioOut>>
               ELSE IF d.err
               THEN /\ emit(n, d.ID, "error", "invalid_json", "unmarshal")
                    /\ UNCHANGED <<stdioPc, stdioReq>>
               ELSE IF d.Tool = <<>>
               THEN /\ emit(n, d.ID, "error", "missing_tool", "")
                    /\ UNCHANGED <<stdioPc, stdioReq>>
               ELSE /\ stdioReq' = [ID |-> d.ID, Tool |-> d.Tool]
                    /\ stdioPc' = "call"
                    /\ UNCHANGED stdioOut
    /\ UNCHANGED <<stdioErr, stdioCtx, stdioRelayed, stdioSpawned, outClosed>>
    /\ UNCHANGED <<gatewayVars, emitVars, runCtx>>

\* StreamTool up to the scan loop: name validation, catalog lookup, slot
\* (free: Run is the only caller), spawn, input line.
Stdio_Call ==
    /\ stdioPc = "call"
    /\ IF ValidateToolName(stdioReq.Tool) # "ok"
       THEN /\ stdioErr' = "invalid tool name"
            /\ stdioPc' = "ret"
            /\ UNCHANGED stdioSpawned
       ELSE IF MustGetTool(stdioReq.Tool) # "ok"
       THEN /\ stdioErr' = "unknown tool"
            /\ stdioPc' = "ret"
            /\ UNCHANGED stdioSpawned
       ELSE \E spawned \in BOOLEAN :
            IF spawned
            THEN /\ stdioSpawned' = stdioSpawned \cup {Len(stdioIn)}
                 /\ stdioPc' = "relay"
                 /\ UNCHANGED stdioErr
            ELSE /\ stdioErr' = "spawn failed"
                 /\ stdioPc' = "ret"
                 /\ UNCHANGED stdioSpawned
    /\ UNCHANGED <<stdioIn, stdioReq, stdioCtx, stdioRelayed, stdioOut, outClosed>>
    /\ UNCHANGED <<gatewayVars, emitVars, runCtx>>

\* One turn of the scan loop with stdioWriter.WriteLine and emitRaw: the
\* envelope is marshalled, then written in one Write.
Stdio_Line ==
    /\ stdioPc = "relay"
    /\ Len(stdioRelayed) < MaxLines
    /\ \E line \in ChildLines :
        /\ stdioRelayed' = Append(stdioRelayed, line)
        /\ IF stdioCtx # "live"
           THEN /\ stdioErr' = IF stdioCtx = "deadline"
                               THEN "context deadline exceeded"
                               ELSE "context canceled"
                /\ stdioPc' = "ret"
                /\ UNCHANGED stdioOut
           ELSE IF Len(line) = 0
           THEN UNCHANGED <<stdioErr, stdioPc, stdioOut>>
           ELSE IF ~JSONValid(line)
           THEN /\ stdioErr' = "marshal failed"
                /\ stdioPc' = "ret"
                /\ UNCHANGED stdioOut
           ELSE /\ stdioOut' = Append(stdioOut,
                        Envelope(Len(stdioIn), stdioReq.ID, "message", "", "",
                                 MarshalRaw(line), line))
                /\ IF outClosed
                   THEN /\ stdioErr' = "write failed"
                        /\ stdioPc' = "ret"
                   ELSE UNCHANGED <<stdioErr, stdioPc>>
    /\ UNCHANGED <<stdioIn, stdioReq, stdioCtx, stdioSpawned, outClosed>>
    /\ UNCHANGED <<gatewayVars, emitVars, runCtx>>

\* End of output: sc.Err() and p.Wait().
Stdio_EOF ==
    /\ stdioPc = "relay"
    /\ \E exitOk0 \in BOOLEAN :
        stdioErr' = IF exitOk0 THEN "nil" ELSE "exit status"
    /\ stdioPc' = "ret"
    /\ UNCHANGED <<stdioIn, stdioReq, stdioCtx, stdioRelayed, stdioSpawned,
                   stdioOut, outClosed>>
    /\ UNCHANGED <<gatewayVars, emitVars, runCtx>>

\* Stdio.Run after StreamTool has returned.
Stdio_Return ==
    /\ stdioPc = "ret"
    /\ IF stdioErr = "nil"
       THEN emit(Len(stdioIn), stdioReq.ID, "done", "", "")
       ELSE emit(Len(stdioIn), stdioReq.ID, "error", "tool_failed", stdioErr)
    /\ stdioPc' = "read"
    /\ stdioReq' = NoStdioReq
    /\ stdioErr' = "nil"
    /\ stdioCtx' = runCtx
    /\ stdioRelayed' = <<>>
    /\ UNCHANGED <<stdioIn, stdioSpawned, outClosed>>
    /\ UNCHANGED <<gatewayVars, emitVars, runCtx>>

\* sc.Scan() returns false: the input stream has ended.
Stdio_InputEnds ==
    /\ stdioPc = "read"
    /\ stdioPc' = "eof"
    /\ UNCHANGED <<stdioIn, stdioReq, stdioErr, stdioCtx, stdioRelayed,
                   stdioSpawned, stdioOut, outClosed>>
    /\ UNCHANGED <<gatewayVars, emitVars, runCtx>>

\* The tool's timeout fires while StreamTool relays.
Stdio_Timeout ==
    /\ stdioPc = "relay"
    /\ stdioCtx = "live"
    /\ stdioCtx' = "deadline"
    /\ UNCHANGED <<stdioPc, stdioIn, stdioReq, stdioErr, stdioRelayed,
                   stdioSpawned, stdioOut, outClosed>>
    /\ UNCHANGED <<gatewayVars, emitVars, runCtx>>

\* The peer closes its end of the output stream.
Stdio_OutputCloses ==
    /\ stdioPc # "eof"
    /\ ~outClosed
    /\ outClosed' = TRUE
    /\ UNCHANGED <<stdioPc, stdioIn, stdioReq, stdioErr, stdioCtx, stdioRelayed,
                   stdioSpawned, stdioOut>>
    /\ UNCHANGED <<gatewayVars, emitVars, runCtx>>

NextStdio ==
    \/ Stdio_Read
    \/ Stdio_Call
    \/ Stdio_Line
    \/ Stdio_EOF
    \/ Stdio_Return
    \/ Stdio_InputEnds
    \/ Stdio_Timeout
    \/ Stdio_OutputCloses

\* The gateway started with the line transport: no HTTP request arrives.
InitStdio == InitWith({})

SpecStdio == InitStdio /\ [][NextStdio]_vars

\* SIGINT or SIGTERM: the context of signal.NotifyContext, which main hands
\* to Run, is cancelled.  The tctx of a StreamTool call derives from it.
\* Run itself reads ctx nowhere: its loop is "for sc.Scan()".
Stdio_Cancel ==
    /\ runCtx = "live"
    /\ stdioPc # "eof"
    /\ runCtx' = "canceled"
    /\ stdioCtx' = IF stdioCtx = "live" THEN "canceled" ELSE stdioCtx
    /\ UNCHANGED <<stdioPc, stdioIn, stdioReq, stdioErr, stdioRelayed,
                   stdioSpawned, stdioOut, outClosed>>
    /\ UNCHANGED <<gatewayVars, emitVars>>

NextStdioCancel ==
    \/ NextStdio
    \/ Stdio_Cancel

\* The goroutine of Run keeps running, and a child whose context has ended
\* is killed and ends its output; whether the peer sends another line or
\* closes the input is up to the peer.
FairnessStdio ==
    /\ WF_vars(Stdio_Call)
    /\ WF_vars(Stdio_EOF)
    /\ WF_vars(Stdio_Return)

SpecStdioLive == InitStdio /\ [][NextStdioCancel]_vars /\ FairnessStdio


\* ---------------------------------------------------------------------
\* Stdio.emitRaw under concurrent callers.  Each goroutine g emits events
\* of its own request; the envelope is marshalled outside the lock, then
\* t.mu is taken and append(b, '\n') is handed to t.out.Write, which may
\* put the bytes on the stream in more than one piece.
\* ---------------------------------------------------------------------

MuFree_Always == TRUE
MuFree == mu = 0

\* resp is built and marshalled; a data that is not JSON makes emitRaw
\* return before the lock.
Emit_Marshal(g) ==
    /\ emitPc[g] = "idle"
    /\ emitted[g] < MaxLines
    /\ emitted' = [emitted EXCEPT ![g] = @ + 1]
    /\ \E marshalled \in BOOLEAN :
        emitPc' = [emitPc EXCEPT ![g] = IF marshalled THEN "lock" ELSE "idle"]
    /\ UNCHANGED <<mu, wire>>
    /\ UNCHANGED <<gatewayVars, stdioVars, runCtx>>

\* t.mu.Lock()
Emit_Lock(g) ==
    /\ emitPc[g] = "lock"
    /\ MuFree
    /\ mu' = g
    /\ emitPc' = [emitPc EXCEPT ![g] = "head"]
    /\ UNCHANGED <<emitted, wire>>
    /\ UNCHANGED <<gatewayVars, stdioVars, runCtx>>

\* t.out.Write: the first bytes of the line.
Emit_WriteHead(g) ==
    /\ emitPc[g] = "head"
    /\ wire' = Append(wire, [g |-> g, k |-> emitted[g], part |-> "head"])
    /\ emitPc' = [emitPc EXCEPT ![g] = "tail"]
    /\ UNCHANGED <<mu, emitted>>
    /\ UNCHANGED <<gatewayVars, stdioVars, runCtx>>

\* t.out.Write: the rest of the line with its '\n'.
Emit_WriteTail(g) ==
    /\ emitPc[g] = "tail"
    /\ wire' = Append(wire, [g |-> g, k |-> emitted[g], part |-> "tail"])
    /\ emitPc' = [emitPc EXCEPT ![g] = "unlock"]
    /\ UNCHANGED <<mu, emitted>>
    /\ UNCHANGED <<gatewayVars, stdioVars, runCtx>>

\* defer t.mu.Unlock()
Emit_Unlock(g) ==
    /\ emitPc[g] = "unlock"
    /\ mu' = 0
    /\ emitPc' = [emitPc EXCEPT ![g] = "idle"]
    /\ UNCHANGED <<emitted, wire>>
    /\ UNCHANGED <<gatewayVars, stdioVars, runCtx>>

NextEmit ==
    \E g \in Reqs :
        \/ Emit_Marshal(g)
        \/ Emit_Lock(g)
        \/ Emit_WriteHead(g)
        \/ Emit_WriteTail(g)
        \/ Emit_Unlock(g)

SpecEmit == InitStdio /\ [][NextEmit]_vars


\* ---------------------------------------------------------------------
\* HTTP.Run: graceful shutdown.  ctx of Run is the context of
\* signal.NotifyContext; the request contexts are made by net/http from
\* context.Background() (the server has no BaseContext) and end only when
\* the handler returns or the connection of the request goes away.
\* ---------------------------------------------------------------------

\* The handler waits for the next output line of a child that is running
\* and writes nothing: a wait that lasts as long as the tool does.
BlockedInScan(r) == pc[r] = "scan" /\ outq[r] = <<>> /\ child[r] = "run"

\* <-ctx.Done() in Run: srv.Shutdown(shutdownCtx) starts.  It closes the
\* listeners and the idle connections.
HTTP_Shutdown ==
    /\ Alive
    /\ srv = "serving"
    /\ srv' = "shutdown"
    /\ UNCHANGED <<pc, rtool, retErr, ctx, deadlineMs, semCap, semCount, held,
                   acquires, releases, busySnap, child, exitOk, produced, outq,
                   stdinClosed, once, closeFnCalls, pump, wd, doneClosed, started,
                   errorSent, events, status, retryAfter, body, peerGone, wbroken,
                   sigs, firedRunning, nw, gateway, busyProcs, respHdr, waits,
                   timeoutAt, readLines, sunk, reqIn, firedAt>>
    /\ UNCHANGED <<stdioVars, emitVars, errq, semMade, runCtx>>

\* srv.Shutdown returns, Run returns nil and main returns: the process
\* ends.  Shutdown returns once no request is being served, or when the
\* 10 s of shutdownCtx are over while a handler is still blocked.
HTTP_Stop ==
    /\ Alive
    /\ srv = "shutdown"
    /\ \/ \A r \in Reqs : pc[r] \in {"off", "idle", "done"}
       \/ \E r \in Reqs : BlockedInScan(r)
    /\ srv' = "stopped"
    /\ UNCHANGED <<pc, rtool, retErr, ctx, deadlineMs, semCap, semCount, held,
                   acquires, releases, busySnap, child, exitOk, produced, outq,
                   stdinClosed, once, closeFnCalls, pump, wd, doneClosed, started,
                   errorSent, events, status, retryAfter, body, peerGone, wbroken,
                   sigs, firedRunning, nw, gateway, busyProcs, respHdr, waits,
                   timeoutAt, readLines, sunk, reqIn, firedAt>>
    /\ UNCHANGED <<stdioVars, emitVars, errq, semMade, runCtx>>

NextShutdown ==
    \/ Next
    \/ HTTP_Shutdown
    \/ HTTP_Stop

SpecShutdown == Init /\ [][NextShutdown]_vars


\* ---------------------------------------------------------------------
\* runner: the stderr pump with the lines of the error stream.
\* ---------------------------------------------------------------------

\* The child writes a line to its error stream.
ChildErrLine(r) ==
    /\ Alive
    /\ child[r] = "run"
    /\ errq[r] = 0
    /\ errq' = [errq EXCEPT ![r] = 1]
    /\ UNCHANGED <<pc, rtool, retErr, ctx, deadlineMs, semCap, semCount, held,
                   acquires, releases, busySnap, child, exitOk, produced, outq,
                   stdinClosed, once, closeFnCalls, pump, wd, doneClosed, started,
                   errorSent, events, status, retryAfter, body, peerGone, wbroken,
                   sigs, firedRunning, nw, gateway, busyProcs, respHdr, waits,
                   timeoutAt, readLines, sunk, reqIn, firedAt, srv, semMade>>
    /\ UNCHANGED <<stdioVars, emitVars, runCtx>>

\* One turn of "for sc.Scan()" in startStderrPump: Scan has returned a
\* line; the context is looked at only now, and the goroutine returns when
\* it is done; otherwise the line is logged.
Pump_Line(r) ==
    /\ Alive
    /\ pump[r] = "run"
    /\ errq[r] > 0
    /\ errq' = [errq EXCEPT ![r] = @ - 1]
    /\ pump' = [pump EXCEPT ![r] = IF ctx[r] # "live" THEN "done" ELSE @]
    /\ UNCHANGED <<pc, rtool, retErr, ctx, deadlineMs, semCap, semCount, held,
                   acquires, releases, busySnap, child, exitOk, produced, outq,
                   stdinClosed, once, closeFnCalls, wd, doneClosed, started,
                   errorSent, events, status, retryAfter, body, peerGone, wbroken,
                   sigs, firedRunning, nw, gateway, busyProcs, respHdr, waits,
                   timeoutAt, readLines, sunk, reqIn, firedAt, srv, semMade>>
    /\ UNCHANGED <<stdioVars, emitVars, runCtx>>

\* The pump goroutine can take a step.
PumpCanStep(r) == ENABLED (Pump_Line(r) \/ PumpExit(r))

NextPump ==
    \/ Next
    \/ \E r \in Reqs : ChildErrLine(r) \/ Pump_Line(r)

SpecPump == Init /\ [][NextPump]_vars

\* Scheduling: the goroutines of the gateway keep running; nothing is
\* assumed of the child, the client or the timer.
Handler(r) ==
    \/ handleMCP_Admit(r) \/ ST_toolSemaphore(r) \/ ST_acquire(r) \/ ST_Start(r)
    \/ ST_WriteInput(r) \/ ST_ScanLine(r) \/ ST_ScanEOF(r) \/ ST_Wait(r)
    \/ ST_Close(r) \/ ST_Kill(r) \/ ST_Join(r) \/ ST_Unwind(r)
    \/ handleMCP_Finish(r)

Watchdog(r) == WD_Fire(r) \/ WD_Done(r) \/ WD_Close(r) \/ WD_Kill(r) \/ WD_Join(r)

NativeWatcher(r) == NW_Fire(r) \/ NW_Kill(r)

Fairness ==
    \A r \in Reqs :
        /\ WF_vars(Handler(r))
        /\ WF_vars(Watchdog(r))
        /\ WF_vars(NativeWatcher(r))
        /\ WF_vars(PumpExit(r))
        /\ WF_vars(PeerCancel(r))

SpecLive == Init /\ [][Next]_vars /\ Fairness

\* ------------------------------------------------------------------ claims
Returned(r) == pc[r] \in {"respond", "done"}

Spawned(r) == wd[r] # "none"

ErrCount(es) == Cardinality({i \in 1..Len(es) : es[i][1] = "error"})

MsgCount(es) == Cardinality({i \in 1..Len(es) : es[i][1] = "message"})

\* C1: for every tool, the number of requests that have acquired its slot
\* and not yet released it never exceeds the tool's effective max_concurrent.
C1_SlotsBounded ==
    \A t \in ToolNames : Cardinality(Holders(t)) <= MaxConc(Catalog[t])

C1_Witness ==
    \E a, b \in Reqs :
        /\ a # b /\ rtool[a] = NameSlow /\ rtool[b] = NameSlow
        /\ held[a] /\ held[b]

\* C2: once the spawn has succeeded, closeFn (the kill primitive) has run
\* exactly once when StreamTool returns, whichever of the watchdog and the
\* deferred close got there first, and never more than once.
C2_CloseExactlyOnce ==
    \A r \in Reqs :
        /\ closeFnCalls[r] <= 1
        /\ (Spawned(r) /\ pc[r] \in {"unwind", "respond", "done"})
              => (closeFnCalls[r] = 1 /\ once[r] = "done")

C2_Witness ==
    /\ pc[1] = "respond" /\ wd[1] = "exit" /\ ctx[1] = "deadline"
    /\ "KILL" \in sigs[1] /\ closeFnCalls[1] = 1

\* C3: a request that acquired a slot has released exactly one slot when
\* StreamTool has returned, and the channel holds no token of it any more;
\* a request that acquired none releases none.
C3_ReleasedOnReturn ==
    \A r \in Reqs :
        Returned(r) =>
            /\ releases[r] = acquires[r]
            /\ ~held[r]
            /\ rtool[r] \in ToolNames =>
                   semCount[rtool[r]] = Cardinality(Holders(rtool[r]))

C3_Witness ==
    /\ pc[1] = "done" /\ acquires[1] = 1 /\ releases[1] = 1
    /\ retErr[1] = "context deadline exceeded"


\* C4: whenever the request context fires (peer disconnect, per-tool
\* timeout) while a child is running, eventually close has been invoked on
\* the process handle, the child's process group has been sent the terminate
\* signal, and StreamTool has returned.
C4_CancelTearsDown ==
    \A r \in Reqs :
        firedRunning[r]
            ~> (once[r] # "fresh" /\ "TERM" \in sigs[r] /\ Returned(r))

\* C5: every spawned child runs under a strictly positive timeout, which is
\* the tool's timeout_ms when that is positive and 30 s when it is zero.
C5_PositiveTimeout ==
    /\ \A r \in Reqs :
           child[r] # "none" =>
               /\ deadlineMs[r] > 0
               /\ deadlineMs[r] = IF Catalog[rtool[r]].TimeoutMS > 0
                                  THEN Catalog[rtool[r]].TimeoutMS
                                  ELSE 30000
    /\ \A t \in ToolNames, ms \in {0, 1, 200, 30000, 30001} :
           LET d == Timeout([Catalog[t] EXCEPT !.TimeoutMS = ms])
           IN  d > 0 /\ d = IF ms > 0 THEN ms ELSE 30000

C5_Witness ==
    /\ child[1] = "run" /\ rtool[1] = NameEcho /\ deadlineMs[1] = 30000

\* C6: admission never blocks: while the gateway runs, a request at the
\* admission step can always take it, whatever the other requests do, and
\* when no slot is free the step returns the busy error at once; a request
\* that got the busy error has no child and no child context.
C6_FailFast ==
    /\ [](\A r \in Reqs : (Alive /\ pc[r] = "acquire") => ENABLED ST_acquire(r))
    /\ [](\A r \in Reqs :
             retErr[r] = "busy" =>
                 /\ child[r] = "none" /\ deadlineMs[r] = 0 /\ acquires[r] = 0)
    /\ [][\A r \in Reqs :
             (pc[r] = "acquire" /\ pc'[r] # "acquire"
                 /\ semCount[rtool[r]] >= semCap[rtool[r]])
                 => (retErr'[r] = "busy" /\ pc'[r] = "respond")]_vars

C6_Witness ==
    \E r \in Reqs : retErr[r] = "busy" /\ pc[r] = "done" /\ status[r] = 429

\* C7 (as stated): at the instant a request is rejected because all slots
\* are taken, the number of in-flight processes of that tool (children
\* started and not yet reaped) is exactly the tool's effective max_concurrent.
C7_RejectedAtProcessCount ==
    \A r \in Reqs :
        busyProcs[r] # -1 => busyProcs[r] = MaxConc(Catalog[rtool[r]])

\* C7 (amended): at the instant a request is rejected because all slots are
\* taken, the number of in-flight requests of that tool (requests that have
\* acquired a slot and not yet released it) is exactly the tool's effective
\* max_concurrent.
C7_RejectedOnlyWhenFull ==
    \A r \in Reqs :
        (retErr[r] = "busy" \/ busySnap[r] # -1) =>
            busySnap[r] = MaxConc(Catalog[rtool[r]])

C7_Witness ==
    \E r \in Reqs :
        /\ rtool[r] = NameEcho /\ busySnap[r] = 1 /\ busyProcs[r] = 0
        /\ status[r] = 429

\* The three outcomes of a streaming request.
CompletedNormally(r) ==
    retErr[r] = "nil" /\ status[r] = 200 /\ ErrCount(events[r]) = 0

TerminalError(r) ==
    /\ ErrCount(events[r]) = 1
    /\ events[r][Len(events[r])][1] = "error"

HTTPErrorBeforeEvents(r) ==
    status[r] \in {400, 405, 415, 429, 500} /\ events[r] = <<>>

\* C8: every finished HTTP streaming request has exactly one of the three
\* outcomes: normal completion after zero or more message events and no
\* error event; a single terminal error event; an HTTP error status before
\* any event.
C8_ExactlyOneOutcome ==
    \A r \in Reqs :
        pc[r] = "done" =>
            Cardinality({k \in {"a", "b", "c"} :
                \/ k = "a" /\ CompletedNormally(r)
                \/ k = "b" /\ TerminalError(r)
                \/ k = "c" /\ HTTPErrorBeforeEvents(r)}) = 1

C8_Witness ==
    /\ pc[1] = "done" /\ TerminalError(1) /\ MsgCount(events[1]) = 2
    /\ retErr[1] = "exit status"

C10_OneTerminalErrorEvent ==
    \A r \in Reqs :
        /\ ErrCount(events[r]) <= 1
        /\ (pc[r] = "done" /\ retErr[r] # "nil" /\ MsgCount(events[r]) > 0) =>
               TerminalError(r)

C10_Witness ==
    /\ pc[1] = "done" /\ retErr[1] = "context deadline exceeded"
    /\ events[1] = <<<<"message", TRUE>>, <<"error", TRUE>>>>

\* C11: once a write of a frame to the HTTP peer has returned an error, the
\* transport writes no further frame of any kind for that request (no error
\* frame either), and the request is torn down: when the handler is back
\* from StreamTool the process handle has been closed.
C11_SilentAfterWriteError ==
    [][\A r \in Reqs :
          wbroken[r] =>
              /\ events'[r] = events[r]
              /\ (Returned(r) /\ Spawned(r) => once[r] = "done")]_vars

\* The SSE fields of the response header.
IsSSEHeader(p) ==
    \/ p = <<"Content-Type", "text/event-stream">>
    \/ p[1] \in {"Cache-Control", "Connection", "X-Accel-Buffering", "X-MCP-Tool",
                 "X-MCP-Runtime", "X-MCP-Timeout"}

\* C12: the SSE response headers are sent only together with the first
\* event: a response that ends with an HTTP error status before any event
\* (429 for a busy tool, 500) carries none of the SSE header fields.
C12_NoSSEHeadersOnHTTPError ==
    \A r \in Reqs :
        (pc[r] = "done" /\ status[r] >= 400 /\ events[r] = <<>>)
            => ~(\E p \in respHdr[r] : IsSSEHeader(p))

\* C13: for every child, native or container, teardown sends the terminate
\* signal first and the kill signal only if the child is still alive after
\* the grace window: whenever a kill signal is sent to a child, the
\* terminate signal has been sent to it before and the child is running.
C13_TermBeforeKill ==
    [][\A r \in Reqs :
          (\E s \in {"KILL", "CTXKILL"} : s \in sigs'[r] /\ s \notin sigs[r])
              => ("TERM" \in sigs[r] /\ child[r] = "run")]_vars

\* C14 as stated: a second close never invokes the kill primitive again, and
\* a caller that arrives at Close when another caller has already entered it
\* (before or while that first close runs) passes both closeOnce.Do and
\* wg.Wait at once.
C14_SecondCloseImmediate ==
    \A r \in Reqs :
        /\ closeFnCalls[r] <= 1
        /\ (Alive /\ once[r] # "fresh" /\ (pc[r] = "close" \/ wd[r] = "close"))
              => (CloseOnceEnabled(r) /\ JoinEnabled(r))

\* The step of a caller that enters Close after another caller.
SecondCloseStep(r) ==
    /\ once[r] # "fresh"
    /\ \/ pc[r] = "close" /\ pc'[r] # "close"
       \/ wd[r] = "close" /\ wd'[r] # "close"

\* The other caller of Close has returned from it.
FirstCloseReturned(r) ==
    \/ pc[r] = "close" /\ wd[r] = "exit"
    \/ wd[r] = "close" /\ pc[r] \in {"unwind", "respond", "done"}

\* C14: closing a process handle a second time does not invoke the kill
\* primitive again and changes nothing of the child, the signals sent, the
\* Once or the pump; a second call made after the first close has returned
\* passes closeOnce.Do and wg.Wait at once.  (A second call made while the
\* first is running waits for it.)
C14_SecondCloseNoEffect ==
    /\ [](\A r \in Reqs :
            /\ closeFnCalls[r] <= 1
            /\ (Alive /\ FirstCloseReturned(r))
                  => (CloseOnceEnabled(r) /\ JoinEnabled(r)))
    /\ [][\A r \in Reqs :
            SecondCloseStep(r)
                => UNCHANGED <<child[r], exitOk[r], sigs[r], once[r],
                               closeFnCalls[r], pump[r], gateway>>]_vars

C14_Witness ==
    /\ pc[1] = "unwind" /\ wd[1] = "exit" /\ once[1] = "done"
    /\ closeFnCalls[1] = 1 /\ retErr[1] = "nil"

\* C15: whenever Close on a process handle has returned (to StreamTool's
\* deferred call or to the watchdog), the stderr pump of that handle has
\* already terminated.
C15_PumpDoneWhenClosed ==
    \A r \in Reqs :
        (Spawned(r) /\ (pc[r] \in {"unwind", "respond", "done"} \/ wd[r] = "exit"))
            => pump[r] = "done"

C15_Witness ==
    /\ pc[1] = "unwind" /\ wd[1] = "waiting" /\ once[1] = "done"
    /\ pump[1] = "done" /\ "KILL" \in sigs[1]

\* C16: a child is waited on at most once.  cmd.Wait is called at most once
\* per child, and the child is reaped by that call and by nothing else: the
\* kill primitive, also when Close runs concurrently with Wait, never reaps.
C16_WaitedAtMostOnce ==
    \A r \in Reqs :
        /\ waits[r] <= 1
        /\ (child[r] = "reaped" <=> waits[r] = 1)

\* The watchdog is inside the kill primitive while StreamTool's Wait has
\* returned.
C16_Witness ==
    /\ wd[1] = "kill" /\ pc[1] = "close" /\ waits[1] = 1 /\ child[1] = "reaped"

\* C17: every spawned child has been reaped (waited on) by the time its
\* request has ended, whatever ended the request (normal end, peer
\* disconnect, sink write error, timeout): no zombie remains.
C17_ReapedWhenRequestEnds ==
    \A r \in Reqs :
        (pc[r] = "done" /\ Spawned(r)) => child[r] = "reaped"

\* C18: if the timeout of a tool elapses while the tool is running and
\* before it has produced any output line, the request is answered with
\* HTTP status 500 and no SSE frame is written.
C18_TimeoutBeforeOutputIs500 ==
    \A r \in Reqs :
        (pc[r] = "done" /\ timeoutAt[r] = 0) => (status[r] = 500 /\ events[r] = <<>>)

\* The positions, in increasing order from i on, of the non-empty lines of
\* the lines read rl.
RECURSIVE NonEmptyFrom(_, _)
NonEmptyFrom(rl, i) ==
    IF i > Len(rl) THEN <<>>
    ELSE (IF rl[i] # "empty" THEN <<i>> ELSE <<>>) \o NonEmptyFrom(rl, i + 1)

IsPrefix(s, u) == Len(s) <= Len(u) /\ \A i \in 1..Len(s) : s[i] = u[i]

\* C19 as stated: when StreamTool has returned, the sequence of lines given
\* to the sink is the sequence of non-empty lines read from the child, in
\* the same order, none dropped, duplicated or reordered.
C19_SinkEqualsLinesRead ==
    \A r \in Reqs :
        Returned(r) => sunk[r] = NonEmptyFrom(readLines[r], 1)

\* C19: the lines given to the sink are, in order and each once, the
\* non-empty lines read from the child, up to the line read after the
\* request context has fired: that one line is dropped and ends the request
\* with the context error.  Each line given to the sink is one message
\* frame, and when StreamTool returns nil every non-empty line the child
\* wrote has been given to the sink.
C19_SinkIsLinesReadWhileLive ==
    \A r \in Reqs :
        LET ne == NonEmptyFrom(readLines[r], 1) IN
        /\ IsPrefix(sunk[r], ne)
        /\ Len(ne) <= Len(sunk[r]) + 1
        /\ Len(ne) # Len(sunk[r])
              => /\ retErr[r] \in {"context canceled", "context deadline exceeded"}
                 /\ ne[Len(ne)] = Len(readLines[r])
        /\ MsgCount(events[r]) = Len(sunk[r])
        /\ (Returned(r) /\ retErr[r] = "nil")
              => (sunk[r] = ne /\ outq[r] = <<>> /\ Len(readLines[r]) = produced[r])

C19_Witness ==
    /\ pc[1] = "done" /\ retErr[1] = "nil"
    /\ readLines[1] = <<"empty", "msg">> /\ sunk[1] = <<2>>

\* The five checks of the streaming endpoint, each on its own.
FailsPath(in) == WrapHardening(in.path) # "next"
FailsMethod(in) == in.method # "POST"
FailsCType(in) == in.ctype = <<>> \/ ParseMediaType(in.ctype) # "application/json"
FailsName(in) == ValidateToolName(ToolNameOf(in.path)) # "ok"
FailsBody(in) == ~in.bodyJSON

\* The answer of the earliest failing check in the order path hardening,
\* method, Content-Type, tool name, body; <<0, "">> when none fails.
EarliestFailing(in) ==
    IF FailsPath(in) THEN <<400, "invalid path">>
    ELSE IF FailsMethod(in) THEN <<405, "method not allowed">>
    ELSE IF FailsCType(in) THEN <<415, "unsupported media type">>
    ELSE IF FailsName(in) THEN <<400, "invalid tool name">>
    ELSE IF FailsBody(in) THEN <<400, "body must be valid JSON">>
    ELSE <<0, "">>

MatchesNamePattern(name) ==
    Len(name) > 0 /\ \A i \in 1..Len(name) : name[i] \in AllowedChars

C22_UnknownToolIs404 ==
    \A r \in Reqs :
        (/\ pc[r] = "done"
         /\ EarliestFailing(reqIn[r])[1] = 0
         /\ ToolNameOf(reqIn[r].path) \notin ToolNames)
            => /\ status[r] = 404
               /\ child[r] = "none" /\ wd[r] = "none" /\ acquires[r] = 0

\* ---------------------------------------------------------------------
\* Line transport
\* ---------------------------------------------------------------------

\* The events written for input line n, in the order of their writes.
EventsOf(n) == SelectSeq(stdioOut, LAMBDA e : e.n = n)

\* Input line n decodes into a request that names a tool.
NamesTool(n) ==
    /\ n \in 1..Len(stdioIn)
    /\ stdioIn[n].syntax = "object"
    /\ stdioIn[n].tool # <<>>

\* Stdio.Run has finished with input line n.
Served(n) ==
    /\ n \in 1..Len(stdioIn)
    /\ n = Len(stdioIn) => stdioPc \in {"read", "eof"}

IsTerminal(e) ==
    \/ e.event = "done" /\ e.error = ""
    \/ e.event = "error" /\ e.error = "tool_failed"

\* C23 (state part): the events of a request that names a tool are message
\* events carrying the request's id, closed -- once the request has been
\* served -- by exactly one terminal event (done, or error tool_failed) with
\* the same id; while it is being served none of its events is terminal.
C23_MessagesThenOneTerminal ==
    \A n \in 1..MaxInputs :
        NamesTool(n) =>
            LET ev == EventsOf(n)
                last == IF Served(n) THEN Len(ev) - 1 ELSE Len(ev)
            IN  /\ \A i \in 1..Len(ev) : ev[i].id = stdioIn[n].id
                /\ \A i \in 1..last : ev[i].event = "message"
                /\ Served(n) => Len(ev) >= 1 /\ IsTerminal(ev[Len(ev)])

\* C23 (step part): the step with which Stdio.Run leaves StreamTool writes
\* exactly one event, done when the core returned no error and error
\* tool_failed with the core's error otherwise.
C23_TerminalFollowsCore ==
    (stdioPc = "ret" /\ stdioPc' # "ret") =>
        /\ Len(stdioOut') = Len(stdioOut) + 1
        /\ LET e == stdioOut'[Len(stdioOut')]
           IN  IF stdioErr = "nil"
               THEN e.event = "done" /\ e.error = ""
               ELSE e.event = "error" /\ e.error = "tool_failed"
                    /\ e.detail = stdioErr

\* C23: on the line transport every request line that names a tool yields
\* zero or more message events followed by exactly one terminal event, done
\* if the core returned no error and error tool_failed otherwise; all of
\* them carry the request's id and nothing of the request follows the
\* terminal event.
C23_OneTerminalEvent ==
    []C23_MessagesThenOneTerminal /\ [][C23_TerminalFollowsCore]_vars

C23_Witness ==
    /\ NamesTool(1) /\ Served(1)
    /\ stdioIn[1].id = "7"
    /\ Len(EventsOf(1)) = 3
    /\ EventsOf(1)[1].event = "message"
    /\ EventsOf(1)[2].event = "message"
    /\ EventsOf(1)[3].event = "done"
    /\ NamesTool(2) /\ Served(2)
    /\ EventsOf(2)[Len(EventsOf(2))].event = "error"

\* The line is JSON text (json.Valid would accept it).
IsJSONText(line) == line.syntax \in {"scalar", "null", "object", "badfield"}

\* The line decodes into a StdioRequest.
Decodes(line) == line.syntax \in {"null", "object"}

\* Exactly one event was written for input line n: an error event of the
\* given class; no process was started for it and Run is back at its loop.
OneErrorAndOn(n, class) ==
    /\ Len(EventsOf(n)) = 1
    /\ EventsOf(n)[1].event = "error"
    /\ EventsOf(n)[1].error = class
    /\ n \notin stdioSpawned
    /\ n = Len(stdioIn) => stdioPc \in {"read", "eof"}

\* C24 as stated: a line that is not valid JSON yields exactly one
\* invalid_json error event, a line that is valid JSON and names no tool
\* exactly one missing_tool error event; neither starts a process and the
\* transport goes on with the next line.
C24_InvalidJSONOrMissingTool ==
    \A n \in 1..Len(stdioIn) :
        /\ stdioIn[n].syntax = "bad" => OneErrorAndOn(n, "invalid_json")
        /\ (IsJSONText(stdioIn[n]) /\ ~NamesTool(n))
               => OneErrorAndOn(n, "missing_tool")

\* C24: a line that does not decode into a request envelope (not JSON, or
\* JSON that is not an object with a string tool) yields exactly one
\* invalid_json error event; a line that decodes and names no tool yields
\* exactly one missing_tool error event; a blank line yields nothing.  None
\* of them starts a process and the transport goes on with the next line.
C24_UndecodableOrMissingTool ==
    \A n \in 1..Len(stdioIn) :
        /\ (stdioIn[n].syntax # "blank" /\ ~Decodes(stdioIn[n]))
               => OneErrorAndOn(n, "invalid_json")
        /\ (Decodes(stdioIn[n]) /\ ~NamesTool(n))
               => OneErrorAndOn(n, "missing_tool")
        /\ stdioIn[n].syntax = "blank"
               => /\ Len(EventsOf(n)) = 0 /\ n \notin stdioSpawned
                  /\ n = Len(stdioIn) => stdioPc \in {"read", "eof"}

C24_Witness ==
    /\ Len(stdioIn) = 2
    /\ stdioIn[1].syntax = "scalar"
    /\ OneErrorAndOn(1, "invalid_json")
    /\ NamesTool(2) /\ Served(2)
    /\ EventsOf(2)[Len(EventsOf(2))].event = "done"

\* C25: on the line transport a served request whose tool name the
\* validator refuses has an error event whose data.error is
\* "invalid_tool_name".
C25_InvalidToolNameError ==
    \A n \in 1..Len(stdioIn) :
        (/\ NamesTool(n) /\ Served(n)
         /\ ValidateToolName(stdioIn[n].tool) # "ok")
            => \E i \in 1..Len(EventsOf(n)) :
                   /\ EventsOf(n)[i].event = "error"
                   /\ EventsOf(n)[i].error = "invalid_tool_name"

\* C26: what the line transport writes is a sequence of complete lines: the
\* first piece of an event is directly followed by the rest of the same
\* event (or is still being completed by the goroutine that holds the
\* lock), and no rest stands without its first piece, however many
\* goroutines emit at once.
C26_NoInterleavedLines ==
    \A i \in 1..Len(wire) :
        /\ wire[i].part = "head" =>
               IF i < Len(wire)
               THEN /\ wire[i + 1].part = "tail"
                    /\ wire[i + 1].g = wire[i].g /\ wire[i + 1].k = wire[i].k
               ELSE emitPc[wire[i].g] = "tail" /\ mu = wire[i].g
        /\ wire[i].part = "tail" =>
               /\ i > 1 /\ wire[i - 1].part = "head"
               /\ wire[i - 1].g = wire[i].g /\ wire[i - 1].k = wire[i].k

\* Two goroutines were inside emitRaw at once and both lines are complete.
C26_Witness ==
    /\ Len(wire) = 4
    /\ wire[1].g # wire[3].g
    /\ emitPc[wire[3].g] = "unlock"
    /\ emitPc[wire[1].g] = "lock"
    /\ emitted[wire[1].g] = 2

\* C28: on the line transport the data of every message event is, byte for
\* byte, the output line of the child it was made from with only the
\* surrounding whitespace removed.
C28_DataIsChildLine ==
    \A i \in 1..Len(stdioOut) :
        stdioOut[i].event = "message"
            => stdioOut[i].data = bytesTrimSpace(stdioOut[i].src)

\* C27: when the HTTP server has been shut down gracefully, every request
\* that was streaming has seen its context cancelled and its child has been
\* torn down: no request is left with a live context and a running child.
C27_ShutdownCancelsInFlight ==
    srv = "stopped" =>
        \A r \in Reqs :
            Spawned(r) => ctx[r] # "live" /\ child[r] # "run"

\* C29: teardown runs in reverse order of acquisition.  From the spawn until
\* the deferred Close of StreamTool has returned the request still holds its
\* admission slot; once the slot has been released, closeFn is complete and
\* the WaitGroup of the handle has been waited for.
C29_SlotReleasedAfterClose ==
    \A r \in Reqs :
        Spawned(r) =>
            /\ pc[r] \in {"input", "scan", "wait", "close", "kill", "join", "unwind"}
                   => held[r] /\ releases[r] = 0
            /\ releases[r] > 0 => once[r] = "done" /\ pump[r] = "done"

C29_Witness ==
    /\ pc[1] = "respond" /\ Spawned(1)
    /\ releases[1] = 1 /\ ~held[1]
    /\ once[1] = "done" /\ closeFnCalls[1] = 1 /\ wd[1] = "waiting"

\* C30: when the child context ends while StreamTool relays output, the
\* error StreamTool returns is the error of the context: the deadline error
\* for the tool's timeout, the cancellation error otherwise.  (A relay that
\* ends on a scanner error of its own is left aside.)
C30_ContextErrorSurfaces ==
    \A r \in Reqs :
        (Returned(r) /\ firedAt[r] = "scan" /\ retErr[r] # "read stdout")
            => retErr[r] = IF ctx[r] = "deadline"
                           THEN "context deadline exceeded"
                           ELSE "context canceled"

\* An event of the request has reached the response.
EventWritten(r) == \E i \in 1..Len(events[r]) : events[r][i][2]

\* C31: the streaming state of a request says "started" exactly when at
\* least one event has actually been written to its response.
C31_StartedIffEventWritten ==
    \A r \in Reqs : started[r] <=> EventWritten(r)

\* C32: for a native child the kill primitive is entered only through
\* Close of the process handle: the goroutine that NativeRuntime.Spawn
\* leaves behind never gets into KillProcess when the context ends.
C32_NativeKillOnlyThroughClose ==
    \A r \in Reqs : nw[r] \in {"none", "waiting"}

\* The kill primitive has been entered for the child of request q, by a
\* Close of its handle or by a watcher of its backend.
KillEntered(q) ==
    closeFnCalls[q] > 0 \/ nw[q] \in {"kill", "exit"} \/ "CTXKILL" \in sigs[q]

\* C33: closing the process handle of one request signals that request's
\* child and its descendants only: the gateway process receives no signal,
\* and a child is signalled only by the teardown of its own request.
C33_SignalsStayInTree ==
    /\ gateway = "up"
    /\ \A q \in Reqs : sigs[q] # {} => KillEntered(q)

\* A step of the kill primitive for the child of request r.
KillStep(r) ==
    \/ once'[r] # once[r]
    \/ closeFnCalls'[r] # closeFnCalls[r]
    \/ nw'[r] # nw[r]

C35_PumpStopsOnCancel ==
    \A r \in Reqs :
        (ctx[r] # "live" /\ pump[r] = "run") => PumpCanStep(r)

\* C36 (step part): the step in which StreamTool calls wait() after the end
\* of the output makes wait()'s result the result of StreamTool: no error
\* exactly when wait() reaped a child that exited with status zero.
C36_WaitStep ==
    \A r \in Reqs :
        (pc[r] = "wait" /\ pc'[r] # "wait") =>
            /\ waits'[r] = waits[r] + 1
            /\ (retErr'[r] = "nil") <=> (child[r] = "zombie" /\ exitOk[r])

\* C36 (state part): a request that went through wait() and has returned
\* carries no error only if its child exited with status zero; the end of
\* the output is reached only when the scanner had no error.
C36_NilOnlyOnExitZero ==
    \A r \in Reqs :
        /\ (Returned(r) /\ waits[r] > 0 /\ retErr[r] = "nil") => exitOk[r]
        /\ (Returned(r) /\ Spawned(r) /\ retErr[r] = "nil") => waits[r] = 1
        /\ pc[r] = "wait" => retErr[r] = "nil"

\* C36: after EOF on the child's output with no scanner error StreamTool
\* calls wait() and returns its result; the request completes without error
\* only if the child exited with status zero.
C36_ReturnsWaitResult ==
    []C36_NilOnlyOnExitZero /\ [][C36_WaitStep]_vars

C36_Witness ==
    /\ pc[1] = "done" /\ waits[1] = 1 /\ retErr[1] = "exit status"
    /\ ~exitOk[1] /\ sigs[1] = {} /\ ctx[1] = "canceled"
    /\ Len(readLines[1]) = 2

\* C37: when Run of the HTTP server has returned after a shutdown, no
\* streaming request is still in flight and no child spawned by the gateway
\* is still running.
C37_NothingLeftAfterRun ==
    srv = "stopped" =>
        \A r \in Reqs :
            /\ pc[r] \in {"off", "idle", "done"}
            /\ child[r] # "run"

\* C38: after the context given to Run of the line transport has been
\* cancelled, the request in progress is torn down and Run returns, whether
\* or not the peer sends another input line or closes the input.
C38_RunReturnsAfterCancel ==
    (runCtx = "canceled") ~> (stdioPc = "eof")

\* C39: for each tool name at most one admission counter is ever made; the
\* requests for the tool, however they interleave, use that one counter, and
\* its capacity is the tool's limit from its creation on.
C39_OneCounterPerTool ==
    \A t \in ToolNames :
        /\ semMade[t] <= 1
        /\ semMade[t] = 1 <=> semCap[t] # 0
        /\ semCap[t] # 0 => semCap[t] = MaxConc(Catalog[t])
        /\ \A r \in Reqs :
               (rtool[r] = t /\ pc[r] \notin {"off", "idle", "sem"})
                   => semMade[t] = 1

C39_Witness ==
    /\ rtool[1] = NameSlow /\ rtool[2] = NameSlow
    /\ held[1] /\ held[2]
    /\ semMade[NameSlow] = 1 /\ semCount[NameSlow] = 2

\* The watchdog's positions in program order: not started, in the select,
\* calling p.Close() (closeOnce.Do, closeFn, wg.Wait) and returned.
WatchdogOrder == <<"none", "waiting", "close", "kill", "join", "exit">>

WatchdogAt(w) == CHOOSE i \in 1..Len(WatchdogOrder) : WatchdogOrder[i] = w

WatchdogCanStep(r) == ENABLED Watchdog(r)

\* C40: the watchdog goroutine of a request does not outlive the request.
\* On every return of StreamTool that follows the spawn the done channel has
\* been closed, and as long as the gateway process runs the watchdog has
\* either returned or can take its next step without waiting for anything;
\* it only ever moves forward through its finitely many positions, so under
\* the scheduler's fairness it returns.
C40_NotBlockedAfterReturn ==
    \A r \in Reqs :
        (Returned(r) /\ Spawned(r)) =>
            /\ doneClosed[r]
            /\ Alive => (wd[r] = "exit" \/ WatchdogCanStep(r))

C40_WatchdogMovesForward ==
    \A r \in Reqs :
        /\ WatchdogAt(wd'[r]) >= WatchdogAt(wd[r])
        /\ Watchdog(r) => WatchdogAt(wd'[r]) > WatchdogAt(wd[r])

C40_WatchdogTerminates ==
    /\ []C40_NotBlockedAfterReturn
    /\ [][C40_WatchdogMovesForward]_vars

\* Request 1 ended normally, its context still live when StreamTool unwound,
\* and its watchdog returned through the done case.
C40_Witness ==
    /\ pc[1] = "done"
    /\ retErr[1] = "nil"
    /\ firedAt[1] = ""
    /\ doneClosed[1]
    /\ wd[1] = "exit"
    /\ gateway = "up"

====
